---- MODULE Spec2Model ----
(***************************************************************************)
(* Model of the MikuNews crawler's S3-compatible upload client             *)
(* (apps/crawler/r2_uploader.py): configuration from the environment,      *)
(* construction, key derivation, URI encoding, request signing, the        *)
(* retrying upload_file call and what it prints; and of the classification *)
(* of media URLs in apps/crawler/push_to_hono.py.  The rest of the         *)
(* pipeline is modelled around it: the media loops of                      *)
(* build_article_from_weibo and download_media_list, the dedup set and the *)
(* browser fields of WeiboImageDownloader (weibo_image_downloader.py),     *)
(* crawl_weibo (weibo.py) and run_crawler_for_config (crawl.py).           *)
(*                                                                         *)
(* A Python str is a sequence of characters; a character is a one-token    *)
(* string ("a", "/", " ", "U+00E9", ...).  Python's None is the value None *)
(* below, which is no str.                                                 *)
(***************************************************************************)
EXTENDS Integers, Sequences, FiniteSets, TLC

VARIABLES
    cfg,      \* the R2Config the uploader holds
    self,     \* the R2Uploader's own fields: date_prefix, host, scheme
    call,     \* arguments of the upload_file call and the state of the source file
    pc,       \* position of the upload_file call
    loc,      \* local variables of upload_file
    now,      \* the clock, in seconds
    trace,    \* the urlopen and time.sleep calls made so far, in order
    result,   \* how the call ended: value returned or error raised
    stdout,   \* the lines written to stdout by the last step that printed
    kd,       \* a key derivation on its own
    enc,      \* a path encoding on its own
    sg,       \* a signing of a header set on its own
    parked,   \* the upload_file call of a second thread while it does not run
    boot,     \* the environment, the config loaded from it and the caller's position
    cl,       \* a classification of a media URL on its own
    art,      \* a build_article_from_weibo call: its media list, position and gallery
    ml,       \* a download_media_list call: its media list, position and saved paths
    dl,       \* a WeiboImageDownloader's dedup set, the files and the download calls
    br,       \* a WeiboImageDownloader's browser fields and how the last call on them ended
    cw,       \* a crawl_weibo call: its position and the close_browser calls it made
    rc        \* a run_crawler_for_config call: its position, lists and counters

upVars == <<cfg, self, call, pc, loc, now, trace, result, stdout>>
pipeVars == <<art, ml, dl, br, cw, rc>>
auxVars == <<kd, enc, sg, parked, boot, cl, pipeVars>>
vars == <<cfg, self, call, pc, loc, now, trace, result, stdout, kd, enc, sg, parked, boot, cl,
          art, ml, dl, br, cw, rc>>

\* a part of the pipeline that is not in use
Unused == [pc |-> "idle"]
PipeIdle ==
    art = Unused /\ ml = Unused /\ dl = Unused /\ br = Unused /\ cw = Unused /\ rc = Unused

(***************************************************************************)
(* Bounds of the model.                                                    *)
(***************************************************************************)
MaxSegLen == 2
MaxPathLen == 3
MaxRetries == 4
MaxTailLen == 3

(***************************************************************************)
(* Python values and str operations.                                       *)
(***************************************************************************)
None == <<"<None>">>

\* bool(x) of an Optional[str]
Truthy(x) == x # None /\ x # <<>>

\* All strings over alphabet A of length at most n
StrUpTo(A, n) == UNION {[1..k -> A] : k \in 0..n}

RECURSIVE lstrip(_, _)
lstrip(s, c) == IF s # <<>> /\ Head(s) = c THEN lstrip(Tail(s), c) ELSE s

RECURSIVE rstrip(_, _)
rstrip(s, c) ==
    IF s # <<>> /\ s[Len(s)] = c THEN rstrip(SubSeq(s, 1, Len(s) - 1), c) ELSE s

\* str.strip(c)
strip(s, c) == rstrip(lstrip(s, c), c)

\* str.split(c): always at least one segment
RECURSIVE split(_, _)
split(s, c) ==
    IF \E i \in 1..Len(s) : s[i] = c
    THEN LET i == CHOOSE j \in 1..Len(s) : s[j] = c /\ \A k \in 1..(j - 1) : s[k] # c
         IN  <<SubSeq(s, 1, i - 1)>> \o split(SubSeq(s, i + 1, Len(s)), c)
    ELSE <<s>>

\* c.join(segs)
RECURSIVE join(_, _)
join(segs, c) ==
    IF segs = <<>> THEN <<>>
    ELSE IF Len(segs) = 1 THEN segs[1]
    ELSE segs[1] \o <<c>> \o join(Tail(segs), c)

\* os.path.basename
basename(path) == LET parts == split(path, "/") IN parts[Len(parts)]

(***************************************************************************)
(* urllib.parse.quote(segment, safe='')                                    *)
(***************************************************************************)
HexDigits == <<"0", "1", "2", "3", "4", "5", "6", "7", "8", "9",
               "A", "B", "C", "D", "E", "F">>

\* Unicode code points of the characters the model uses
CharTable ==
    { <<"a", 97>>, <<"b", 98>>, <<"c", 99>>, <<"d", 100>>, <<"e", 101>>, <<"f", 102>>, <<"g", 103>>,
      <<"h", 104>>, <<"i", 105>>, <<"j", 106>>, <<"k", 107>>, <<"l", 108>>, <<"m", 109>>, <<"n", 110>>,
      <<"o", 111>>, <<"p", 112>>, <<"q", 113>>, <<"r", 114>>, <<"s", 115>>, <<"t", 116>>, <<"u", 117>>,
      <<"v", 118>>, <<"w", 119>>, <<"x", 120>>, <<"y", 121>>, <<"z", 122>>,
      <<"A", 65>>, <<"B", 66>>, <<"C", 67>>, <<"D", 68>>, <<"E", 69>>, <<"F", 70>>, <<"G", 71>>,
      <<"H", 72>>, <<"I", 73>>, <<"J", 74>>, <<"K", 75>>, <<"L", 76>>, <<"M", 77>>, <<"N", 78>>,
      <<"O", 79>>, <<"P", 80>>, <<"Q", 81>>, <<"R", 82>>, <<"S", 83>>, <<"T", 84>>, <<"U", 85>>,
      <<"V", 86>>, <<"W", 87>>, <<"X", 88>>, <<"Y", 89>>, <<"Z", 90>>,
      <<"0", 48>>, <<"1", 49>>, <<"2", 50>>, <<"3", 51>>, <<"4", 52>>,
      <<"5", 53>>, <<"6", 54>>, <<"7", 55>>, <<"8", 56>>, <<"9", 57>>,
      <<"/", 47>>, <<" ", 32>>, <<"%", 37>>, <<"+", 43>>, <<":", 58>>,
      <<".", 46>>, <<"-", 45>>, <<"_", 95>>, <<"~", 126>>, <<"[", 91>>, <<"]", 93>>,
      <<"U+00E9", 233>>, <<"U+6D4B", 27979>> }

Chars == {p[1] : p \in CharTable}

ord(c) == (CHOOSE p \in CharTable : p[1] = c)[2]

chr(cp) == IF \E p \in CharTable : p[2] = cp
           THEN (CHOOSE p \in CharTable : p[2] = cp)[1]
           ELSE "U+FFFD"

\* str.encode("utf-8") of one character
utf8(cp) ==
    IF cp < 128 THEN <<cp>>
    ELSE IF cp < 2048 THEN <<192 + (cp \div 64), 128 + (cp % 64)>>
    ELSE IF cp < 65536
         THEN <<224 + (cp \div 4096), 128 + ((cp \div 64) % 64), 128 + (cp % 64)>>
    ELSE <<240 + (cp \div 262144), 128 + ((cp \div 4096) % 64),
           128 + ((cp \div 64) % 64), 128 + (cp % 64)>>

\* urllib.parse._ALWAYS_SAFE restricted to the model's characters
AlwaysSafe ==
    { "a", "b", "c", "d", "e", "f", "g", "h", "i", "j", "k", "l", "m",
      "n", "o", "p", "q", "r", "s", "t", "u", "v", "w", "x", "y", "z",
      "A", "B", "C", "D", "E", "F", "G", "H", "I", "J", "K", "L", "M",
      "N", "O", "P", "Q", "R", "S", "T", "U", "V", "W", "X", "Y", "Z",
      "0", "1", "2", "3", "4", "5", "6", "7", "8", "9",
      "_", ".", "-", "~" }

RECURSIVE quote_bytes(_)
quote_bytes(bs) ==
    IF bs = <<>> THEN <<>>
    ELSE <<"%", HexDigits[(Head(bs) \div 16) + 1], HexDigits[(Head(bs) % 16) + 1]>>
         \o quote_bytes(Tail(bs))

RECURSIVE quote(_)
quote(s) ==
    IF s = <<>> THEN <<>>
    ELSE (IF Head(s) \in AlwaysSafe THEN <<Head(s)>>
          ELSE quote_bytes(utf8(ord(Head(s)))))
         \o quote(Tail(s))

RECURSIVE quote_each(_)
quote_each(segs) ==
    IF segs = <<>> THEN <<>> ELSE <<quote(Head(segs))>> \o quote_each(Tail(segs))

\* slip: the whole path quoted with safe='', separators included
_encode_uri_path_mut_whole(path) == quote(path)

\* R2Uploader._encode_uri_path
_encode_uri_path(path) == join(quote_each(split(path, "/")), "/")

(***************************************************************************)
(* R2Uploader._derive_key                                                  *)
(***************************************************************************)
_derive_key(prefix, date_prefix, filename) ==
    join((IF strip(prefix, "/") # <<>> THEN <<strip(prefix, "/")>> ELSE <<>>)
         \o (IF Truthy(date_prefix) THEN <<strip(date_prefix, "/")>> ELSE <<>>)
         \o <<filename>>, "/")

\* upload_file: filename = object_name or os.path.basename(file_path)
object_filename(file_path, object_name) ==
    IF Truthy(object_name) THEN object_name ELSE basename(file_path)

(***************************************************************************)
(* Key derivation on its own: the inputs are drawn in Init, DeriveKey      *)
(* applies lines 128-129 of upload_file.                                   *)
(***************************************************************************)
SegAlphabet == {"m", "/", " "}
NameAlphabet == {"a", "."}
KeyPaths == { <<"f">>, <<"t", "/", "f">> }

KdIdle == [pc |-> "idle"]

KdInit ==
    kd \in [pc : {"call"},
            prefix : StrUpTo(SegAlphabet, MaxSegLen),
            date_prefix : StrUpTo(SegAlphabet, MaxSegLen) \cup {None},
            file_path : KeyPaths,
            object_name : StrUpTo(NameAlphabet, MaxSegLen) \cup {None}]

DeriveKey ==
    /\ kd.pc = "call"
    /\ kd' = [pc |-> "done",
              prefix |-> kd.prefix,
              date_prefix |-> kd.date_prefix,
              file_path |-> kd.file_path,
              object_name |-> kd.object_name,
              filename |-> object_filename(kd.file_path, kd.object_name),
              key |-> _derive_key(kd.prefix, kd.date_prefix,
                                  object_filename(kd.file_path, kd.object_name))]
    /\ UNCHANGED <<enc, sg, parked, boot, cl, upVars, pipeVars>>

(***************************************************************************)
(* _encode_uri_path on its own.                                            *)
(***************************************************************************)
EncAlphabet == {"a", "/", " ", "%", "+", "U+00E9", "U+6D4B"}

EncIdle == [pc |-> "idle"]

EncInit == enc \in [pc : {"call"}, path : StrUpTo(EncAlphabet, MaxPathLen)]

EncodePath ==
    /\ enc.pc = "call"
    /\ enc' = [pc |-> "done", path |-> enc.path, out |-> _encode_uri_path(enc.path)]
    /\ UNCHANGED <<kd, sg, parked, boot, cl, upVars, pipeVars>>

(***************************************************************************)
(* R2Uploader.__init__: the endpoint is parsed once (urllib.parse.urlparse) *)
(***************************************************************************)
IsLetter(c) == ord(c) \in 65..90 \/ ord(c) \in 97..122
IsDigit(c) == ord(c) \in 48..57

\* position of the first occurrence of a character of cs in s, 0 if none
FirstOf(s, cs) ==
    IF \E i \in 1..Len(s) : s[i] \in cs
    THEN CHOOSE i \in 1..Len(s) : s[i] \in cs /\ \A k \in 1..(i - 1) : s[k] \notin cs
    ELSE 0

HasScheme(url) ==
    LET i == FirstOf(url, {":"})
    IN  /\ i > 1
        /\ IsLetter(url[1])
        /\ \A k \in 1..(i - 1) : IsLetter(url[k]) \/ IsDigit(url[k]) \/ url[k] \in {"+", "-", "."}

url_scheme(url) == IF HasScheme(url) THEN SubSeq(url, 1, FirstOf(url, {":"}) - 1) ELSE <<>>

url_netloc(url) ==
    LET rest == IF HasScheme(url) THEN SubSeq(url, FirstOf(url, {":"}) + 1, Len(url)) ELSE url
    IN  IF Len(rest) >= 2 /\ rest[1] = "/" /\ rest[2] = "/"
        THEN LET after == SubSeq(rest, 3, Len(rest))
                 j == FirstOf(after, {"/", "?", "#"})
             IN  IF j = 0 THEN after ELSE SubSeq(after, 1, j - 1)
        ELSE <<>>

\* the fields __init__ sets; it raises ValueError when scheme or netloc is empty
new_uploader(config, date_prefix, debug) ==
    [date_prefix |-> date_prefix,
     debug |-> debug,
     host |-> url_netloc(config.endpoint),
     scheme |-> url_scheme(config.endpoint)]

\* the credentials of the model's configs
AccessKeyId == <<"A", "K", "I", "D">>
SecretAccessKey == <<"S", "E", "C", "R", "E", "T">>

(***************************************************************************)
(* R2Uploader._sign.  SHA-256 and HMAC-SHA256 are injective constructors;  *)
(* "\n".join(parts) is the tuple of the parts.                             *)
(***************************************************************************)
sha256(x) == [sha256 |-> x]
hmac(key, msg) == [hmac_key |-> key, msg |-> msg]

\* module-level _sign(key, msg)
hmac_digest(key, msg) == hmac(key, msg)

\* slip: the service is mixed into the key before the region
_get_signature_key_mut_swapped(key, date_stamp, region_name, service_name) ==
    hmac_digest(hmac_digest(hmac_digest(hmac_digest(<<"A", "W", "S", "4">> \o key, date_stamp),
                                        service_name), region_name), "aws4_request")

_get_signature_key(key, date_stamp, region_name, service_name) ==
    hmac_digest(hmac_digest(hmac_digest(hmac_digest(<<"A", "W", "S", "4">> \o key, date_stamp),
                                        region_name), service_name), "aws4_request")

\* str.lower()
lower(s) ==
    [i \in 1..Len(s) |-> IF ord(s[i]) \in 65..90 THEN chr(ord(s[i]) + 32) ELSE s[i]]

\* s < t of two str: code points compared from the left
RECURSIVE str_less(_, _)
str_less(s, t) ==
    IF t = <<>> THEN FALSE
    ELSE IF s = <<>> THEN TRUE
    ELSE IF Head(s) = Head(t) THEN str_less(Tail(s), Tail(t))
    ELSE ord(Head(s)) < ord(Head(t))

\* sorted(xs) of a list of str
RECURSIVE sorted(_)
sorted(xs) ==
    IF xs = <<>> THEN <<>>
    ELSE LET rest == sorted(Tail(xs))
             k == Cardinality({i \in 1..Len(rest) : ~str_less(Head(xs), rest[i])})
         IN  SubSeq(rest, 1, k) \o <<Head(xs)>> \o SubSeq(rest, k + 1, Len(rest))

\* the keys of a dict, as iteration gives them
RECURSIVE keys_of(_)
keys_of(S) ==
    IF S = {} THEN <<>> ELSE LET k == CHOOSE x \in S : TRUE IN <<k>> \o keys_of(S \ {k})

keys(headers) == keys_of(DOMAIN headers)

\* A header value is [text |-> str] when it is free text and [token |-> v]
\* when it is produced by hexdigest, strftime or mimetypes, which hold no
\* white space.  value.strip()
stripped(value) ==
    IF "text" \in DOMAIN value THEN [text |-> strip(value.text, " ")] ELSE value

_sign(config, method, uri, headers, payload_hash, amz_date, date_stamp) ==
    LET canonical_uri == _encode_uri_path(uri)
        names == sorted(keys(headers))
        canonical_headers ==
            [i \in 1..Len(names) |-> <<lower(names[i]), stripped(headers[names[i]])>>]
        signed_headers == sorted([i \in 1..Len(keys(headers)) |-> lower(keys(headers)[i])])
        canonical_request ==
            <<method, canonical_uri, "", canonical_headers, signed_headers, payload_hash>>
        algorithm == "AWS4-HMAC-SHA256"
        credential_scope == <<date_stamp, "auto", "s3", "aws4_request">>
        string_to_sign == <<algorithm, amz_date, credential_scope, sha256(canonical_request)>>
        signing_key == _get_signature_key(config.secret_key, date_stamp, "auto", "s3")
    IN  [algorithm |-> algorithm,
         credential |-> <<config.access_key, credential_scope>>,
         signed_headers |-> signed_headers,
         signature |-> hmac(signing_key, string_to_sign)]

(***************************************************************************)
(* R2Uploader.upload_file                                                  *)
(***************************************************************************)
\* datetime.utcnow().strftime("%Y%m%dT%H%M%SZ") and strftime("%Y%m%d")
strftime_amz_date(t) == [ymd |-> t \div (24 * 3600), hms |-> t % (24 * 3600)]
\* slip: the date stamp is taken from the local clock (UTC+8)
strftime_date_stamp_mut_local(t) == [ymd |-> (t + 8 * 3600) \div (24 * 3600)]

strftime_date_stamp(t) == [ymd |-> t \div (24 * 3600)]

\* mimetypes.guess_type(filename)[0] or "application/octet-stream"; of the
\* model's file names only those ending in ".a" have a known type
content_type_of(filename) ==
    IF Len(filename) >= 2 /\ SubSeq(filename, Len(filename) - 1, Len(filename)) = <<".", "a">>
    THEN "application/x-archive"
    ELSE "application/octet-stream"

\* slip: every 2xx status accepted
ok_status_mut_any2xx(status) == status \in 200..299

\* resp.status in (200, 201)
ok_status(status) == status \in {200, 201}

\* slip: exponential instead of linear backoff
wait_time_mut_exponential(attempt) == 2 ^ attempt

\* wait_time = attempt * 2
wait_time(attempt) == attempt * 2

\* slip: the base is used as configured, trailing slashes included
public_url_mut_norstrip(config, key) ==
    IF Truthy(config.public_base_url)
    THEN config.public_base_url \o <<"/">> \o key
    ELSE config.endpoint \o <<"/">> \o config.bucket \o <<"/">> \o key

\* the URL returned after a successful attempt
public_url(config, key) ==
    IF Truthy(config.public_base_url)
    THEN rstrip(config.public_base_url, "/") \o <<"/">> \o key
    ELSE rstrip(config.endpoint, "/") \o <<"/">> \o config.bucket \o <<"/">> \o key

\* What urlopen(req, timeout=60) can do with a request.  http.client refuses
\* a request line holding a space or control character (InvalidURL) or a
\* non-ASCII character (UnicodeEncodeError) before anything is sent; a
\* request that is sent gets a response or fails in transport (URLError).
Statuses == {200, 201, 204, 401, 403, 500}

urlopen_outcomes(url) ==
    IF \E i \in 1..Len(url) : ord(url[i]) <= 32 \/ ord(url[i]) = 127
    THEN {[kind |-> "exception", type |-> "InvalidURL", status |-> 0, wire |-> FALSE]}
    ELSE IF \E i \in 1..Len(url) : ord(url[i]) >= 128
    THEN {[kind |-> "exception", type |-> "UnicodeEncodeError", status |-> 0, wire |-> FALSE]}
    ELSE {[kind |-> "response", type |-> "HTTPResponse", status |-> st, wire |-> TRUE] :
              st \in Statuses}
         \cup {[kind |-> "exception", type |-> "URLError", status |-> 0, wire |-> TRUE]}

\* the attempt ends without an exception
succeeds(o) == o.kind = "response" /\ ok_status(o.status)

\* the exception the try block ends with: urlopen raises HTTPError for a
\* status outside 2xx, upload_file raises RuntimeError for the other statuses
error_of(o, attempt) ==
    [type |-> IF o.kind = "exception" THEN o.type
              ELSE IF o.status \in 200..299 THEN "RuntimeError" ELSE "HTTPError",
     status |-> o.status,
     attempt |-> attempt]

NoError == [type |-> "none", status |-> 0, attempt |-> 0]
NoOutcome == [kind |-> "none", type |-> "none", status |-> 0, wire |-> FALSE]
Pending == [kind |-> "pending"]

\* the header names of upload_file
Host == <<"H", "o", "s", "t">>
XAmzContentSha256 ==
    <<"x", "-", "a", "m", "z", "-", "c", "o", "n", "t", "e", "n", "t", "-",
      "s", "h", "a", "2", "5", "6">>
XAmzDate == <<"x", "-", "a", "m", "z", "-", "d", "a", "t", "e">>
ContentType == <<"C", "o", "n", "t", "e", "n", "t", "-", "T", "y", "p", "e">>
Authorization ==
    <<"A", "u", "t", "h", "o", "r", "i", "z", "a", "t", "i", "o", "n">>

\* slip: the header declares the hash of the empty payload
attempt_headers_mut_emptyhash(host, payload_hash, amz_date, filename) ==
    [n \in {Host, XAmzContentSha256, XAmzDate, ContentType} |->
        CASE n = Host -> [text |-> host]
          [] n = XAmzContentSha256 -> [token |-> sha256(<<>>)]
          [] n = XAmzDate -> [token |-> amz_date]
          [] OTHER -> [token |-> content_type_of(filename)]]

\* the headers dict of one attempt, before signing (lines 147-152)
attempt_headers(host, payload_hash, amz_date, filename) ==
    [n \in {Host, XAmzContentSha256, XAmzDate, ContentType} |->
        CASE n = Host -> [text |-> host]
          [] n = XAmzContentSha256 -> [token |-> payload_hash]
          [] n = XAmzDate -> [token |-> amz_date]
          [] OTHER -> [token |-> content_type_of(filename)]]

\* the request of one attempt (lines 139-160)
request_of(config, uploader, data, filename, uri, url, t) ==
    LET payload_hash == sha256(data)
        amz_date == strftime_amz_date(t)
        date_stamp == strftime_date_stamp(t)
        headers == attempt_headers(uploader.host, payload_hash, amz_date, filename)
        auth == _sign(config, "PUT", uri, headers, payload_hash, amz_date, date_stamp)
    IN  [method |-> "PUT",
         url |-> url,
         data |-> data,
         headers |-> [n \in DOMAIN headers \cup {Authorization} |->
                         IF n = Authorization THEN [token |-> auth] ELSE headers[n]],
         canonical_uri |-> _encode_uri_path(uri)]

(***************************************************************************)
(* _sign on its own: a header set is drawn in Init, SignHeaders signs it.  *)
(***************************************************************************)
SignNames ==
    { Host, ContentType, XAmzDate, <<"d", "a", "t", "e">>,
      <<"E", "x", "p", "e", "c", "t">> }
SignValues == { [text |-> <<"v">>], [text |-> <<" ", "v", " ">>] }
SignHeaderSets == UNION {[D -> SignValues] : D \in (SUBSET SignNames) \ {{}}}
SignConfig ==
    [endpoint |-> <<"s", ":", "/", "/", "h">>, bucket |-> <<"b">>,
     access_key |-> AccessKeyId, secret_key |-> SecretAccessKey,
     prefix |-> <<>>, public_base_url |-> None]

SgIdle == [pc |-> "idle"]

SgInit == sg \in [pc : {"call"}, headers : SignHeaderSets]

SignHeaders ==
    /\ sg.pc = "call"
    /\ sg' = [pc |-> "done",
              headers |-> sg.headers,
              auth |-> _sign(SignConfig, "PUT", <<"/", "b", "/", "f">>, sg.headers,
                             sha256(<<>>), strftime_amz_date(0), strftime_date_stamp(0))]
    /\ UNCHANGED <<kd, enc, parked, boot, cl, upVars, pipeVars>>

(***************************************************************************)
(* What upload_file and _sign print.  A printed line is its format, the    *)
(* str values put into it (strs) and the values of other kinds: numbers,   *)
(* dates, digests (vals).  The fixed hint printed for an SSL or EOF error  *)
(* is left out.                                                            *)
(***************************************************************************)
line(fmt, strs, vals) == [fmt |-> fmt, strs |-> strs, vals |-> vals]

\* s[:n]
slice(s, n) == SubSeq(s, 1, IF Len(s) < n THEN Len(s) ELSE n)

\* the Authorization header up to the date of the scope:
\* "AWS4-HMAC-SHA256 Credential=" + access_key + "/"
authorization_head(access_key) ==
    <<"A", "W", "S", "4", "-", "H", "M", "A", "C", "-", "S", "H", "A", "2", "5", "6", " ",
      "C", "r", "e", "d", "e", "n", "t", "i", "a", "l", "=">> \o access_key \o <<"/">>

\* lines 106-116: the lines _sign prints when debug is set
sign_debug_lines(config, method, uri, payload_hash, amz_date, auth) ==
    << line("[R2 Debug] Signature Details:", <<>>, <<>>),
       line("  Method: {}", <<>>, <<method>>),
       line("  URI (raw): {}", <<uri>>, <<>>),
       line("  URI (canonical): {}", <<_encode_uri_path(uri)>>, <<>>),
       line("  Signed Headers: {}", <<join(auth.signed_headers, ";")>>, <<>>),
       line("  Payload Hash: {}", <<>>, <<payload_hash>>),
       line("  Date: {}", <<>>, <<amz_date>>),
       line("  Canonical Request Hash: {}", <<>>, <<auth.signature.msg[4]>>),
       line("  Signature: {}", <<>>, <<auth.signature>>),
       line("  Authorization: {}...",
            <<slice(authorization_head(config.access_key), 80)>>,
            IF Len(authorization_head(config.access_key)) < 80
            THEN <<auth.credential[2][1]>> ELSE <<>>) >>

\* lines 124 and 134
prepare_lines(file_path, data, url) ==
    << line("[R2] Preparing upload: {}", <<file_path>>, <<>>),
       line("[R2] Uploading {} KB to: {}", <<url>>, <<Len(data)>>) >>

\* lines 154-158: what an attempt prints before the request is sent
attempt_lines(config, uploader, req, uri, attempt, max_retries) ==
    (IF uploader.debug
     THEN sign_debug_lines(config, req.method, uri, req.headers[XAmzContentSha256].token,
                           req.headers[XAmzDate].token, req.headers[Authorization].token)
     ELSE <<>>)
    \o (IF attempt > 1
        THEN <<line("[R2] Retry attempt {}/{}", <<>>, <<attempt, max_retries>>)>>
        ELSE <<>>)

\* lines 166-175
success_lines(config, key) ==
    << line("[R2] Upload success: {}", <<key>>, <<>>),
       line(IF Truthy(config.public_base_url)
            THEN "[R2] Public URL: {}" ELSE "[R2] Public URL (fallback): {}",
            <<public_url(config, key)>>, <<>>) >>

\* str(e): InvalidURL and UnicodeEncodeError quote the path of the request,
\* the other messages are made of the error's type and status
str_of_error(e, uri) ==
    [strs |-> IF e.type \in {"InvalidURL", "UnicodeEncodeError"} THEN <<uri>> ELSE <<>>,
     vals |-> <<e.type, e.status>>]

\* lines 181-199: what the handler of a failed attempt prints
failure_lines(config, e, uri, attempt, max_retries) ==
    <<line("[R2] Upload attempt {} failed: {}", str_of_error(e, uri).strs,
           <<attempt>> \o str_of_error(e, uri).vals)>>
    \o (IF e.status = 401
        THEN << line("[R2] Authentication failed. Please check:", <<>>, <<>>),
                line("[R2]   - R2_ACCESS_KEY_ID is correct", <<>>, <<>>),
                line("[R2]   - R2_SECRET_ACCESS_KEY is correct", <<>>, <<>>),
                line("[R2]   - Bucket '{}' exists and is accessible", <<config.bucket>>, <<>>),
                line("[R2]   - Endpoint: {}", <<config.endpoint>>, <<>>) >>
        ELSE <<>>)
    \o (IF attempt < max_retries
        THEN <<line("[R2] Waiting {}s before retry...", <<>>, <<wait_time(attempt)>>)>>
        ELSE <<line("[R2] All {} attempts failed", <<>>, <<max_retries>>)>>)

\* lines 121-134 without the check of the source: the file is taken as read
Prepare_mut_nocheck ==
    /\ pc = "call"
    /\ LET filename == object_filename(call.file_path, call.object_name)
           key == _derive_key(cfg.prefix, self.date_prefix, filename)
           uri == <<"/">> \o cfg.bucket \o <<"/">> \o key
       IN  loc' = [loc EXCEPT !.filename = filename, !.key = key, !.uri = uri,
                              !.url = self.scheme \o <<":", "/", "/">> \o self.host \o uri]
    /\ stdout' = prepare_lines(call.file_path, call.data, loc'.url)
    /\ pc' = "loop"
    /\ UNCHANGED <<cfg, self, call, now, trace, result, auxVars>>

\* slip: the date prefix is trimmed in place, on the uploader
Prepare_mut_trims_in_place ==
    /\ pc = "call"
    /\ call.file_state = "file"
    /\ self' = [self EXCEPT !.date_prefix =
                    IF Truthy(self.date_prefix) THEN strip(self.date_prefix, "/") ELSE None]
    /\ LET filename == object_filename(call.file_path, call.object_name)
           key == _derive_key(cfg.prefix, self'.date_prefix, filename)
           uri == <<"/">> \o cfg.bucket \o <<"/">> \o key
       IN  loc' = [loc EXCEPT !.filename = filename, !.key = key, !.uri = uri,
                              !.url = self.scheme \o <<":", "/", "/">> \o self.host \o uri]
    /\ stdout' = prepare_lines(call.file_path, call.data, loc'.url)
    /\ pc' = "loop"
    /\ UNCHANGED <<cfg, call, now, trace, result, auxVars>>

\* lines 121-134: the source is checked and read, the key and the URL are built
Prepare ==
    /\ pc = "call"
    /\ IF call.file_state = "missing"
       THEN /\ pc' = "raised"
            /\ result' = [kind |-> "raise", type |-> "FileNotFoundError",
                          attempts |-> 0, cause |-> NoError]
            /\ loc' = loc
            /\ stdout' = stdout
       ELSE IF call.file_state = "unreadable"
       THEN /\ pc' = "raised"
            /\ result' = [kind |-> "raise", type |-> "PermissionError",
                          attempts |-> 0, cause |-> NoError]
            /\ loc' = loc
            /\ stdout' = <<line("[R2] Preparing upload: {}", <<call.file_path>>, <<>>)>>
       ELSE /\ LET filename == object_filename(call.file_path, call.object_name)
                   key == _derive_key(cfg.prefix, self.date_prefix, filename)
                   uri == <<"/">> \o cfg.bucket \o <<"/">> \o key
               IN  loc' = [loc EXCEPT !.filename = filename, !.key = key, !.uri = uri,
                                      !.url = self.scheme \o <<":", "/", "/">> \o self.host \o uri]
            /\ stdout' = prepare_lines(call.file_path, call.data, loc'.url)
            /\ pc' = "loop"
            /\ result' = result
    /\ UNCHANGED <<cfg, self, call, now, trace, auxVars>>

\* for attempt in range(1, max_retries + 1): the next attempt starts
LoopNext ==
    /\ pc = "loop"
    /\ loc.attempt < call.max_retries
    /\ loc' = [loc EXCEPT !.attempt = loc.attempt + 1]
    /\ pc' = "try"
    /\ UNCHANGED <<cfg, self, call, now, trace, result, stdout, auxVars>>

\* the range is exhausted: the function body ends without a return statement
FallThrough ==
    /\ pc = "loop"
    /\ loc.attempt >= call.max_retries
    /\ pc' = "returned"
    /\ result' = [kind |-> "return", value |-> None]
    /\ UNCHANGED <<cfg, self, call, loc, now, trace, stdout, auxVars>>

\* slip: the URL is kept but the loop goes on to the next attempt
AttemptSucceeds_mut_goes_on ==
    /\ pc = "try"
    /\ \E o \in urlopen_outcomes(loc.url) :
          /\ succeeds(o)
          /\ trace' = Append(trace,
                 [op |-> "urlopen", attempt |-> loc.attempt, wire |-> o.wire, secs |-> 0,
                  req |-> request_of(cfg, self, call.data, loc.filename, loc.uri, loc.url, now)])
          /\ loc' = [loc EXCEPT !.outcome = o]
    /\ stdout' =
                     attempt_lines(cfg, self,
                         request_of(cfg, self, call.data, loc.filename, loc.uri, loc.url, now),
                         loc.uri, loc.attempt, call.max_retries)
                  \o success_lines(cfg, loc.key)
    /\ pc' = "loop"
    /\ result' = [kind |-> "return", value |-> public_url(cfg, loc.key)]
    /\ UNCHANGED <<cfg, self, call, now, auxVars>>

\* lines 139-176: the attempt is signed and sent, and it succeeds
AttemptSucceeds ==
    /\ pc = "try"
    /\ \E o \in urlopen_outcomes(loc.url) :
          /\ succeeds(o)
          /\ trace' = Append(trace,
                 [op |-> "urlopen", attempt |-> loc.attempt, wire |-> o.wire, secs |-> 0,
                  req |-> request_of(cfg, self, call.data, loc.filename, loc.uri, loc.url, now)])
          /\ loc' = [loc EXCEPT !.outcome = o]
    /\ stdout' =
                     attempt_lines(cfg, self,
                         request_of(cfg, self, call.data, loc.filename, loc.uri, loc.url, now),
                         loc.uri, loc.attempt, call.max_retries)
                  \o success_lines(cfg, loc.key)
    /\ pc' = "returned"
    /\ result' = [kind |-> "return", value |-> public_url(cfg, loc.key)]
    /\ UNCHANGED <<cfg, self, call, now, auxVars>>

\* slip: an authorization failure ends the retry loop at once
AttemptFails_mut_failfast ==
    /\ pc = "try"
    /\ \E o \in urlopen_outcomes(loc.url) :
          /\ ~succeeds(o)
          /\ LET e == error_of(o, loc.attempt)
                 sent == Append(trace,
                     [op |-> "urlopen", attempt |-> loc.attempt, wire |-> o.wire, secs |-> 0,
                      req |-> request_of(cfg, self, call.data, loc.filename, loc.uri,
                                         loc.url, now)])
             IN  /\ loc' = [loc EXCEPT !.outcome = o, !.last_error = e]
                 /\ stdout' =
                           attempt_lines(cfg, self,
                               request_of(cfg, self, call.data, loc.filename, loc.uri,
                                          loc.url, now),
                               loc.uri, loc.attempt, call.max_retries)
                        \o failure_lines(cfg, e, loc.uri, loc.attempt, call.max_retries)
                 /\ IF loc.attempt < call.max_retries /\ o.status \notin {401, 403}
                    THEN /\ trace' = Append(sent, [op |-> "sleep", attempt |-> loc.attempt,
                                                   wire |-> FALSE,
                                                   secs |-> wait_time(loc.attempt),
                                                   req |-> <<>>])
                         /\ pc' = "sleeping"
                         /\ result' = result
                    ELSE /\ trace' = sent
                         /\ pc' = "raised"
                         /\ result' = [kind |-> "raise", type |-> "RuntimeError",
                                       attempts |-> call.max_retries, cause |-> e]
    /\ UNCHANGED <<cfg, self, call, now, auxVars>>

\* lines 139-164 and 178-200: the attempt is signed and sent, it fails, and
\* the handler either starts the backoff wait or raises the wrapped error
AttemptFails ==
    /\ pc = "try"
    /\ \E o \in urlopen_outcomes(loc.url) :
          /\ ~succeeds(o)
          /\ LET e == error_of(o, loc.attempt)
                 sent == Append(trace,
                     [op |-> "urlopen", attempt |-> loc.attempt, wire |-> o.wire, secs |-> 0,
                      req |-> request_of(cfg, self, call.data, loc.filename, loc.uri,
                                         loc.url, now)])
             IN  /\ loc' = [loc EXCEPT !.outcome = o, !.last_error = e]
                 /\ stdout' =
                           attempt_lines(cfg, self,
                               request_of(cfg, self, call.data, loc.filename, loc.uri,
                                          loc.url, now),
                               loc.uri, loc.attempt, call.max_retries)
                        \o failure_lines(cfg, e, loc.uri, loc.attempt, call.max_retries)
                 /\ IF loc.attempt < call.max_retries
                    THEN /\ trace' = Append(sent, [op |-> "sleep", attempt |-> loc.attempt,
                                                   wire |-> FALSE,
                                                   secs |-> wait_time(loc.attempt),
                                                   req |-> <<>>])
                         /\ pc' = "sleeping"
                         /\ result' = result
                    ELSE /\ trace' = sent
                         /\ pc' = "raised"
                         /\ result' = [kind |-> "raise", type |-> "RuntimeError",
                                       attempts |-> call.max_retries, cause |-> e]
    /\ UNCHANGED <<cfg, self, call, now, auxVars>>

\* time.sleep(wait_time) returns
Wake ==
    /\ pc = "sleeping"
    /\ now' = now + trace[Len(trace)].secs
    /\ pc' = "loop"
    /\ UNCHANGED <<cfg, self, call, loc, trace, result, stdout, auxVars>>

(***************************************************************************)
(* load_config_from_env and the callers that build an uploader from its    *)
(* result: build_article_from_weibo, crawl_weibo and the module's __main__. *)
(* os.getenv gives None for a variable that is not set.                    *)
(***************************************************************************)
\* the None that load_config_from_env returns
NoConfig == [configured |-> FALSE]

\* slip: one required setting is enough (any instead of all)
load_config_from_env_mut_any(env) ==
    IF \E v \in {env.R2_ENDPOINT, env.R2_BUCKET, env.R2_ACCESS_KEY_ID,
                 env.R2_SECRET_ACCESS_KEY} : Truthy(v)
    THEN [endpoint |-> env.R2_ENDPOINT,
          bucket |-> env.R2_BUCKET,
          access_key |-> env.R2_ACCESS_KEY_ID,
          secret_key |-> env.R2_SECRET_ACCESS_KEY,
          prefix |-> IF env.R2_PREFIX = None THEN <<>> ELSE env.R2_PREFIX,
          public_base_url |-> IF Truthy(env.R2_PUBLIC_BASE_URL)
                              THEN env.R2_PUBLIC_BASE_URL ELSE None]
    ELSE NoConfig

load_config_from_env(env) ==
    IF \A v \in {env.R2_ENDPOINT, env.R2_BUCKET, env.R2_ACCESS_KEY_ID,
                 env.R2_SECRET_ACCESS_KEY} : Truthy(v)
    THEN [endpoint |-> env.R2_ENDPOINT,
          bucket |-> env.R2_BUCKET,
          access_key |-> env.R2_ACCESS_KEY_ID,
          secret_key |-> env.R2_SECRET_ACCESS_KEY,
          prefix |-> IF env.R2_PREFIX = None THEN <<>> ELSE env.R2_PREFIX,
          public_base_url |-> IF Truthy(env.R2_PUBLIC_BASE_URL)
                              THEN env.R2_PUBLIC_BASE_URL ELSE None]
    ELSE NoConfig

\* slip: only the scheme of the endpoint is checked
init_raises_mut_scheme_only(config) == url_scheme(config.endpoint) = <<>>

\* __init__: if not parsed.scheme or not parsed.netloc: raise ValueError
init_raises(config) ==
    url_scheme(config.endpoint) = <<>> \/ url_netloc(config.endpoint) = <<>>

Environments ==
    [R2_ENDPOINT : {None, <<>>, <<"s", ":", "/", "/", "h">>, <<"h">>, <<"s", ":", "h">>,
                    <<"/", "/", "h">>},
     R2_BUCKET : {None, <<>>, <<"b">>},
     R2_ACCESS_KEY_ID : {None, <<>>, AccessKeyId},
     R2_SECRET_ACCESS_KEY : {None, <<>>, SecretAccessKey},
     R2_PREFIX : {None, <<"m">>},
     R2_PUBLIC_BASE_URL : {None, <<>>, <<"s", ":", "/", "/", "c">>}]

BootCalls ==
    [file_path : {<<"t", "/", "f">>}, file_state : {"file", "missing"}, data : {<<1>>},
     object_name : {None}, max_retries : {0, 2}]

BootIdle == [pc |-> "idle"]

BootInit ==
    boot \in [pc : {"env"}, env : Environments, date_prefix : {None, <<"d">>},
              config : {NoConfig}, inits : {0}]

\* r2_config = load_config_from_env()
LoadConfig ==
    /\ boot.pc = "env"
    /\ boot' = [boot EXCEPT !.pc = "loaded", !.config = load_config_from_env(boot.env)]
    /\ UNCHANGED <<kd, enc, sg, parked, cl, upVars, pipeVars>>

\* uploader = R2Uploader(r2_config, date_prefix=date_prefix) if r2_config else None
Construct ==
    /\ boot.pc = "loaded"
    /\ IF boot.config = NoConfig
       THEN /\ boot' = [boot EXCEPT !.pc = "no_uploader"]
            /\ UNCHANGED <<cfg, self>>
       ELSE IF init_raises(boot.config)
       THEN /\ boot' = [boot EXCEPT !.pc = "init_raised", !.inits = boot.inits + 1]
            /\ UNCHANGED <<cfg, self>>
       ELSE /\ boot' = [boot EXCEPT !.pc = "constructed", !.inits = boot.inits + 1]
            /\ cfg' = boot.config
            /\ self' = new_uploader(boot.config, boot.date_prefix, FALSE)
    /\ UNCHANGED <<call, pc, loc, now, trace, result, stdout, kd, enc, sg, parked, cl, pipeVars>>

\* the caller's uploader.upload_file(path) on the uploader it built
CallUpload ==
    /\ boot.pc = "constructed"
    /\ pc = "idle"
    /\ call' \in BootCalls
    /\ pc' = "call"
    /\ UNCHANGED <<cfg, self, loc, now, trace, result, stdout, auxVars>>

(***************************************************************************)
(* push_to_hono._is_r2_url on its own: a URL and a config are drawn in     *)
(* Init, Classify applies the function.                                    *)
(***************************************************************************)
\* str.startswith
startswith(s, p) == Len(p) <= Len(s) /\ SubSeq(s, 1, Len(p)) = p

\* urlparse(url) raises ValueError ("Invalid IPv6 URL"): a bracket of the
\* netloc has no partner
urlparse_raises(url) ==
    LET netloc == url_netloc(url)
        Has(c) == \E i \in 1..Len(netloc) : netloc[i] = c
    IN  Has("[") # Has("]")

\* slip: the configured values are used as they are, trailing slashes kept
_is_r2_url_mut_norstrip(url, config) ==
    IF urlparse_raises(url) THEN FALSE
    ELSE \/ /\ Truthy(config.public_base_url)
            /\ startswith(url, config.public_base_url \o <<"/">>)
         \/ startswith(url, config.endpoint \o <<"/">> \o config.bucket \o <<"/">>)

_is_r2_url(url, config) ==
    IF urlparse_raises(url) THEN FALSE
    ELSE \/ /\ Truthy(config.public_base_url)
            /\ startswith(url, rstrip(config.public_base_url, "/") \o <<"/">>)
         \/ startswith(url, rstrip(config.endpoint, "/") \o <<"/">> \o config.bucket
                             \o <<"/">>)

\* media URLs: a stem followed by a tail of slashes and name characters
UrlStems ==
    { <<>>, <<"s", ":", "/", "/", "c">>, <<"s", ":", "/", "/", "C">>,
      <<"s", ":", "/", "/", "h">>, <<"s", ":", "/", "/", "h", "/", "b">>,
      <<"s", ":", "/", "/", "h", "/", "/", "b">>, <<"s", ":", "/", "/", "H", "/", "b">>,
      <<"s", ":", "/", "/", "[">> }
UrlTails == StrUpTo({"/", "k"}, MaxTailLen)
MediaUrls == {stem \o tail : stem \in UrlStems, tail \in UrlTails}

ClassifyConfigs ==
    [endpoint : { <<"s", ":", "/", "/", "h">>, <<"s", ":", "/", "/", "h", "/">> },
     bucket : {<<"b">>}, access_key : {AccessKeyId}, secret_key : {SecretAccessKey},
     prefix : {<<>>},
     public_base_url : { None, <<>>, <<"s", ":", "/", "/", "c">>,
                         <<"s", ":", "/", "/", "c", "/", "/">>, <<"s", ":", "/", "/", "[">> }]

ClIdle == [pc |-> "idle"]

ClInit == cl \in [pc : {"call"}, url : MediaUrls, config : ClassifyConfigs]

Classify ==
    /\ cl.pc = "call"
    /\ cl' = [pc |-> "done", url |-> cl.url, config |-> cl.config,
              out |-> _is_r2_url(cl.url, cl.config)]
    /\ UNCHANGED <<kd, enc, sg, parked, boot, upVars, pipeVars>>

(***************************************************************************)
(* A URL returned by upload_file, classified in a later run under the same *)
(* config: UploadReturns applies lines 128-129 and 168-176 of upload_file  *)
(* to a config and a file name drawn in Init, Classify applies _is_r2_url  *)
(* to the URL returned.                                                    *)
(***************************************************************************)
AgreeInit ==
    cl \in [pc : {"upload"}, config : ClassifyConfigs,
            prefix : { <<>>, <<"m">>, <<"/", "m", "/">> }, date_prefix : {None, <<"d">>},
            filename : { <<"f">>, <<"[", "f">>, <<"a", ".", "b">> }]

UploadReturns ==
    /\ cl.pc = "upload"
    /\ LET config == [cl.config EXCEPT !.prefix = cl.prefix]
           key == _derive_key(config.prefix, cl.date_prefix, cl.filename)
       IN  cl' = [pc |-> "call", url |-> public_url(config, key), config |-> config]
    /\ UNCHANGED <<kd, enc, sg, parked, boot, upVars, pipeVars>>

(***************************************************************************)
(* push_to_hono.build_article_from_weibo: the media loop.  The call to     *)
(* uploader.upload_file is taken by its outcome: it returns the public URL *)
(* of the key derived from the uploaded path, or it raises.                *)
(***************************************************************************)
MaxMedia == 2

\* urlsplit: what follows "scheme:", the whole URL when it has no scheme
after_scheme(url) ==
    IF HasScheme(url) THEN SubSeq(url, FirstOf(url, {":"}) + 1, Len(url)) ELSE url

\* urlsplit: what follows the netloc, which "//" opens and "/", "?" or "#" ends
after_netloc(rest) ==
    IF Len(rest) >= 2 /\ rest[1] = "/" /\ rest[2] = "/"
    THEN LET j == FirstOf(SubSeq(rest, 3, Len(rest)), {"/", "?", "#"})
         IN  IF j = 0 THEN <<>> ELSE SubSeq(rest, j + 2, Len(rest))
    ELSE rest

\* urlparse(url).path
url_path(url) ==
    LET q == FirstOf(after_netloc(after_scheme(url)), {"?", "#"})
    IN  IF q = 0 THEN after_netloc(after_scheme(url))
        ELSE SubSeq(after_netloc(after_scheme(url)), 1, q - 1)

\* position of the last "." of a file name, 0 if none
last_dot(name) ==
    IF \E i \in 1..Len(name) : name[i] = "."
    THEN CHOOSE i \in 1..Len(name) : name[i] = "." /\ \A k \in (i + 1)..Len(name) : name[k] # "."
    ELSE 0

\* os.path.splitext(name)[1]: the leading dots of the name open no extension
splitext_ext(name, last) ==
    IF last > 1 /\ \E k \in 1..(last - 1) : name[k] # "."
    THEN SubSeq(name, last, Len(name)) ELSE <<>>

\* os.path.splitext(urlparse(url).path)[1]
url_ext(url) == splitext_ext(basename(url_path(url)), last_dot(basename(url_path(url))))

guess_media_type(url) ==
    IF lower(url_ext(url)) \in { <<".", "m", "p", "4">>, <<".", "w", "e", "b", "m">>,
                                 <<".", "m", "o", "v">> }
    THEN "video" ELSE "image"

\* parsed.scheme in {"http", "https"}; urlparse gives the scheme in lower case
is_http(url) ==
    lower(url_scheme(url)) \in { <<"h", "t", "t", "p">>, <<"h", "t", "t", "p", "s">> }

\* the path mkstemp(prefix="mikunews-media-", suffix=suffix) returns
tmp_path(url) == <<"/", "t", "/", "m">> \o url_ext(url)

\* gallery.append(MediaItem(type=guess_media_type(src_str), src=src_str)); the
\* urlparse of guess_media_type raises ValueError on a malformed netloc
append_media(a, src) ==
    IF urlparse_raises(src)
    THEN [a EXCEPT !.pc = "raised", !.error = "ValueError"]
    ELSE [a EXCEPT !.pc = "loop", !.i = a.i + 1, !.upload_path = None,
                   !.gallery = Append(a.gallery, [type |-> guess_media_type(src), src |-> src])]

LocalFile == <<"i", "/", "f">>
OwnByBase == <<"h", "t", "t", "p", ":", "/", "/", "c", "/", "k">>
OwnByEndpoint == <<"h", "t", "t", "p", ":", "/", "/", "h", "/", "b", "/", "k">>
Foreign == <<"h", "t", "t", "p", ":", "/", "/", "o", "/", "k">>
NotHttp == <<"f", "t", "p", ":", "/", "/", "o", "/", "k">>
Malformed == <<"h", "t", "t", "p", ":", "/", "/", "[", "/", "k">>
MediaEntries == {<<>>, LocalFile, OwnByBase, OwnByEndpoint, Foreign, NotHttp, Malformed}
MediaLists == UNION {[1..n -> MediaEntries] : n \in 0..MaxMedia}

ArtConfigs ==
    {NoConfig}
    \cup [endpoint : { <<"h", "t", "t", "p", ":", "/", "/", "h">>, <<"h">> },
          bucket : {<<"b">>}, access_key : {AccessKeyId}, secret_key : {SecretAccessKey},
          prefix : {<<>>},
          public_base_url : { None, <<"h", "t", "t", "p", ":", "/", "/", "c", "/">> }]

ArtInit ==
    art \in [pc : {"call"}, media : MediaLists, files : SUBSET {LocalFile},
             config : ArtConfigs, date_prefix : {<<"d">>}, i : {1}, upload_path : {None},
             gallery : {<<>>}, events : {<<>>}, error : {"none"}]

\* lines 209-219: the local-file check and the construction of the uploader
BuildStart ==
    /\ art.pc = "call"
    /\ LET has_local_files ==
               \E k \in 1..Len(art.media) : Truthy(art.media[k]) /\ art.media[k] \in art.files
       IN  art' = IF has_local_files /\ art.config = NoConfig
                  THEN [art EXCEPT !.pc = "raised", !.error = "RuntimeError"]
                  ELSE IF art.config # NoConfig /\ init_raises(art.config)
                  THEN [art EXCEPT !.pc = "raised", !.error = "ValueError"]
                  ELSE [art EXCEPT !.pc = "loop"]
    /\ UNCHANGED <<kd, enc, sg, parked, boot, cl, ml, dl, br, cw, rc, upVars>>

\* slip: every remote http(s) URL is downloaded, the classifier is not asked
MediaStep_mut_noclassify ==
    /\ art.pc = "loop"
    /\ art.i <= Len(art.media)
    /\ LET media == art.media[art.i]
           Ev(op, out) == [op |-> op, i |-> art.i, src |-> media, out |-> out]
       IN  art' =
             IF ~Truthy(media) THEN [art EXCEPT !.i = art.i + 1]
             ELSE IF art.config = NoConfig THEN append_media(art, media)
             ELSE IF media \in art.files
             THEN [art EXCEPT !.pc = "upload", !.upload_path = media]
             ELSE IF urlparse_raises(media)
             THEN [art EXCEPT !.pc = "raised", !.error = "ValueError"]
             ELSE IF ~is_http(media) THEN append_media(art, media)
             ELSE [art EXCEPT !.pc = "download",
                              !.events = Append(art.events, Ev("classify", FALSE))]
    /\ UNCHANGED <<kd, enc, sg, parked, boot, cl, ml, dl, br, cw, rc, upVars>>

\* lines 221-238: one media entry up to the choice of upload_path; an entry
\* that needs no upload is appended at once (lines 250-251)
MediaStep ==
    /\ art.pc = "loop"
    /\ art.i <= Len(art.media)
    /\ LET media == art.media[art.i]
           Ev(op, out) == [op |-> op, i |-> art.i, src |-> media, out |-> out]
       IN  art' =
             IF ~Truthy(media) THEN [art EXCEPT !.i = art.i + 1]
             ELSE IF art.config = NoConfig THEN append_media(art, media)
             ELSE IF media \in art.files
             THEN [art EXCEPT !.pc = "upload", !.upload_path = media]
             ELSE IF urlparse_raises(media)
             THEN [art EXCEPT !.pc = "raised", !.error = "ValueError"]
             ELSE IF ~is_http(media) THEN append_media(art, media)
             ELSE IF _is_r2_url(media, art.config)
             THEN append_media([art EXCEPT !.events = Append(art.events, Ev("classify", TRUE))],
                               media)
             ELSE [art EXCEPT !.pc = "download",
                              !.events = Append(art.events, Ev("classify", FALSE))]
    /\ UNCHANGED <<kd, enc, sg, parked, boot, cl, ml, dl, br, cw, rc, upVars>>

\* _download_to_temp: the path of the temporary file, or None after a failure
DownloadToTemp ==
    /\ art.pc = "download"
    /\ LET media == art.media[art.i]
           ev == [op |-> "download", i |-> art.i, src |-> media, out |-> TRUE]
       IN  \E ok \in BOOLEAN :
             art' = IF ok
                    THEN [art EXCEPT !.pc = "upload", !.upload_path = tmp_path(media),
                                     !.events = Append(art.events, ev)]
                    ELSE append_media([art EXCEPT !.events =
                                          Append(art.events, [ev EXCEPT !.out = FALSE])], media)
    /\ UNCHANGED <<kd, enc, sg, parked, boot, cl, ml, dl, br, cw, rc, upVars>>

\* lines 240-251: uploader.upload_file(upload_path) returns the URL or raises
UploadMedia ==
    /\ art.pc = "upload"
    /\ LET media == art.media[art.i]
           key == _derive_key(art.config.prefix, art.date_prefix, basename(art.upload_path))
           ev == [op |-> "upload", i |-> art.i, src |-> media, out |-> TRUE]
       IN  \E ok \in BOOLEAN :
             art' = IF ok
                    THEN append_media([art EXCEPT !.events = Append(art.events, ev)],
                                      public_url(art.config, key))
                    ELSE append_media([art EXCEPT !.events =
                                          Append(art.events, [ev EXCEPT !.out = FALSE])], media)
    /\ UNCHANGED <<kd, enc, sg, parked, boot, cl, ml, dl, br, cw, rc, upVars>>

\* lines 253-274: the article is returned with the gallery
BuildReturn ==
    /\ art.pc = "loop"
    /\ art.i > Len(art.media)
    /\ art' = [art EXCEPT !.pc = "returned"]
    /\ UNCHANGED <<kd, enc, sg, parked, boot, cl, ml, dl, br, cw, rc, upVars>>

(***************************************************************************)
(* WeiboImageDownloader.download_media_list.  process_image_by_url catches *)
(* every exception and is taken by its outcome: the saved path or None.    *)
(* upload_file is taken by its outcome as above.                           *)
(***************************************************************************)
\* the path process_image_by_url saved the image to (dest_dir / filename)
SavedPath == <<"i", "/", "p", "/", "f">>

MlMedia == {<<>>, Foreign, OwnByBase, Malformed}
MlConfigs ==
    {NoConfig,
     [endpoint |-> <<"h", "t", "t", "p", ":", "/", "/", "h">>, bucket |-> <<"b">>,
      access_key |-> AccessKeyId, secret_key |-> SecretAccessKey, prefix |-> <<>>,
      public_base_url |-> None]}

MlInit ==
    ml \in [pc : {"call"}, media : UNION {[1..n -> MlMedia] : n \in 0..MaxMedia},
            page : BOOLEAN, config : MlConfigs, date_prefix : {<<"d">>}, i : {1},
            saved_paths : {<<>>}, events : {<<>>}, error : {"none"}]

\* lines 311-316: if not self.page: raise RuntimeError
MediaListStart ==
    /\ ml.pc = "call"
    /\ ml' = IF ~ml.page THEN [ml EXCEPT !.pc = "raised", !.error = "RuntimeError"]
             ELSE [ml EXCEPT !.pc = "loop"]
    /\ UNCHANGED <<kd, enc, sg, parked, boot, cl, art, dl, br, cw, rc, upVars>>

\* lines 318-334: one entry of media_urls, empty or not
MediaListStep ==
    /\ ml.pc = "loop"
    /\ ml.i <= Len(ml.media)
    /\ LET media_url == ml.media[ml.i]
           key == _derive_key(ml.config.prefix, ml.date_prefix, basename(SavedPath))
           Put(x) == [ml EXCEPT !.i = ml.i + 1, !.saved_paths = Append(ml.saved_paths, x)]
           Up(ok) == [op |-> "upload", i |-> ml.i, src |-> SavedPath, out |-> ok]
       IN  \E saved \in {None, SavedPath}, ok \in BOOLEAN :
             ml' = IF urlparse_raises(media_url)
                   THEN [ml EXCEPT !.pc = "raised", !.error = "ValueError"]
                   ELSE IF ~Truthy(saved) THEN Put(media_url)
                   ELSE IF ml.config = NoConfig THEN Put(saved)
                   ELSE IF ok
                   THEN [Put(public_url(ml.config, key)) EXCEPT
                            !.events = Append(ml.events, Up(TRUE))]
                   ELSE [Put(saved) EXCEPT !.events = Append(ml.events, Up(FALSE))]
    /\ UNCHANGED <<kd, enc, sg, parked, boot, cl, art, dl, br, cw, rc, upVars>>

\* line 336: return saved_paths
MediaListReturn ==
    /\ ml.pc = "loop"
    /\ ml.i > Len(ml.media)
    /\ ml' = [ml EXCEPT !.pc = "returned"]
    /\ UNCHANGED <<kd, enc, sg, parked, boot, cl, art, dl, br, cw, rc, upVars>>

(***************************************************************************)
(* WeiboImageDownloader.download_image and the part of                     *)
(* process_image_by_url that follows the extraction of the image URL       *)
(* (lines 211-250).  A call is a coroutine: it runs from one await to the  *)
(* next without interruption, so a step of the model is the code between   *)
(* two awaits.  The browser part of process_image_by_url (lines 136-211)   *)
(* is taken by its outcome: the image URL and whether a popup gave it.     *)
(***************************************************************************)
MaxCalls == 2

\* re.sub(r"/(orj360|bmiddle)/", "/mw2000/", image_url)
RECURSIVE re_sub_mw2000(_)
re_sub_mw2000(s) ==
    LET orj == <<"/", "o", "r", "j", "3", "6", "0", "/">>
        bmi == <<"/", "b", "m", "i", "d", "d", "l", "e", "/">>
        mw == <<"/", "m", "w", "2", "0", "0", "0", "/">>
    IN  IF s = <<>> THEN <<>>
        ELSE IF startswith(s, orj) THEN mw \o re_sub_mw2000(SubSeq(s, Len(orj) + 1, Len(s)))
        ELSE IF startswith(s, bmi) THEN mw \o re_sub_mw2000(SubSeq(s, Len(bmi) + 1, Len(s)))
        ELSE <<Head(s)>> \o re_sub_mw2000(Tail(s))

\* str(target_dir / filename)
filepath(dest, filename) == dest \o <<"/">> \o filename

\* image URLs (they hold no scheme, query or fragment: the path is the URL)
ImageUrls ==
    { <<"w", "/", "o", "r", "j", "3", "6", "0", "/", "a">>,
      <<"w", "/", "b", "m", "i", "d", "d", "l", "e", "/", "a">>,
      <<"w", "/", "m", "w", "2", "0", "0", "0", "/", "a">>,
      <<"w", "/", "l", "/", "b">> }
\* the directories of two posts
DestDirs == { <<"p">>, <<"q">> }

NoTask ==
    [pc |-> "idle", op |-> "none", url |-> None, filename |-> None, dest |-> None,
     known |-> FALSE, attempts |-> 0, result |-> None]
\* known: process_image_by_url found the URL in the set and no file for it;
\* attempts: the downloads the call has started (requests and viewer downloads)

\* the downloader after __init__, used by the tasks of T
DlInit(T) ==
    dl = [downloaded_urls |-> {}, files |-> {}, requests |-> <<>>, calls |-> 0,
          tasks |-> [t \in T |-> NoTask]]

\* slip: the URL is entered in the set before the request is awaited
download_image_enter_mut_reserve(d, t, task) ==
    IF task.url \in d.downloaded_urls
    THEN [d EXCEPT !.tasks[t] =
            [task EXCEPT !.pc = "done",
                         !.result = IF filepath(task.dest, task.filename) \in d.files
                                    THEN filepath(task.dest, task.filename) ELSE None]]
    ELSE [d EXCEPT !.tasks[t] = [task EXCEPT !.pc = "awaiting", !.attempts = task.attempts + 1],
                   !.downloaded_urls = d.downloaded_urls \cup {task.url},
                   !.requests = Append(d.requests,
                                       [task |-> t, image_url |-> task.url,
                                        url |-> re_sub_mw2000(task.url)])]

\* download_image from its call to the await of client.get (lines 36-55), as
\* the new value of dl: the call of task returns at once for a known URL,
\* otherwise the request for the rewritten URL is sent
download_image_enter(d, t, task) ==
    IF task.url \in d.downloaded_urls
    THEN [d EXCEPT !.tasks[t] =
            [task EXCEPT !.pc = "done",
                         !.result = IF filepath(task.dest, task.filename) \in d.files
                                    THEN filepath(task.dest, task.filename) ELSE None]]
    ELSE [d EXCEPT !.tasks[t] = [task EXCEPT !.pc = "awaiting", !.attempts = task.attempts + 1],
                   !.requests = Append(d.requests,
                                       [task |-> t, image_url |-> task.url,
                                        url |-> re_sub_mw2000(task.url)])]

\* a caller's download_image(image_url, filename, dest_dir)
CallDownloadImage(t) ==
    /\ dl.tasks[t].pc = "idle"
    /\ dl.calls < MaxCalls
    /\ \E u \in ImageUrls, d \in DestDirs :
         dl' = download_image_enter(
                   [dl EXCEPT !.calls = dl.calls + 1], t,
                   [NoTask EXCEPT !.op = "download_image", !.url = u,
                                  !.filename = basename(u), !.dest = d])
    /\ UNCHANGED <<kd, enc, sg, parked, boot, cl, art, ml, br, cw, rc, upVars>>

\* slip: only the URL as given is entered in the set
FetchResponds_mut_given_only(t) ==
    /\ dl.tasks[t].pc = "awaiting"
    /\ LET task == dl.tasks[t] IN
       \E ok \in BOOLEAN :
         dl' = IF ok
               THEN [dl EXCEPT !.files = dl.files \cup {filepath(task.dest, task.filename)},
                               !.downloaded_urls =
                                   dl.downloaded_urls \cup {task.url},
                               !.tasks[t] = [task EXCEPT !.pc = "done",
                                                !.result = filepath(task.dest, task.filename)]]
               ELSE [dl EXCEPT !.tasks[t] = [task EXCEPT !.pc = "done", !.result = None]]
    /\ UNCHANGED <<kd, enc, sg, parked, boot, cl, art, ml, br, cw, rc, upVars>>

\* lines 56-65: the response arrives; the file is written and both URLs are
\* entered in the set, or an exception makes the call return None
FetchResponds(t) ==
    /\ dl.tasks[t].pc = "awaiting"
    /\ LET task == dl.tasks[t] IN
       \E ok \in BOOLEAN :
         dl' = IF ok
               THEN [dl EXCEPT !.files = dl.files \cup {filepath(task.dest, task.filename)},
                               !.downloaded_urls =
                                   dl.downloaded_urls \cup {task.url, re_sub_mw2000(task.url)},
                               !.tasks[t] = [task EXCEPT !.pc = "done",
                                                !.result = filepath(task.dest, task.filename)]]
               ELSE [dl EXCEPT !.tasks[t] = [task EXCEPT !.pc = "done", !.result = None]]
    /\ UNCHANGED <<kd, enc, sg, parked, boot, cl, art, ml, br, cw, rc, upVars>>

\* process_image_by_url, lines 211-241, with the image URL the viewer gave:
\* the check of downloaded_urls and of the existing file, then download_image
\* (popup) or the viewer's download button
CallProcessImage(t) ==
    /\ dl.tasks[t].pc = "idle"
    /\ dl.calls < MaxCalls
    /\ \E u \in ImageUrls \cup {None}, d \in DestDirs, popup \in BOOLEAN :
         LET d1 == [dl EXCEPT !.calls = dl.calls + 1]
             known == u \in dl.downloaded_urls /\ filepath(d, basename(u)) \notin dl.files
             task == [NoTask EXCEPT !.op = "process_image_by_url", !.url = u,
                                    !.filename = IF u = None THEN None ELSE basename(u),
                                    !.dest = d, !.known = known]
         IN  dl' = IF u = None
                   THEN [d1 EXCEPT !.tasks[t] = [task EXCEPT !.pc = "done"]]
                   ELSE IF u \in dl.downloaded_urls /\ filepath(d, basename(u)) \in dl.files
                   THEN [d1 EXCEPT !.tasks[t] = [task EXCEPT !.pc = "done",
                                                    !.result = filepath(d, basename(u))]]
                   ELSE IF popup THEN download_image_enter(d1, t, task)
                   ELSE [d1 EXCEPT !.tasks[t] = [task EXCEPT !.pc = "browser",
                                                    !.attempts = 1]]
    /\ UNCHANGED <<kd, enc, sg, parked, boot, cl, art, ml, br, cw, rc, upVars>>

\* lines 236-241: download_via_browser saved the file under the suggested
\* name, or it failed and download_image is tried
BrowserDownloadEnds(t) ==
    /\ dl.tasks[t].pc = "browser"
    /\ LET task == dl.tasks[t] IN
       \E ok \in BOOLEAN, suggested \in {task.filename, <<"s">>} :
         dl' = IF ok
               THEN [dl EXCEPT !.files = dl.files \cup {filepath(task.dest, suggested)},
                               !.downloaded_urls = dl.downloaded_urls \cup {task.url},
                               !.tasks[t] = [task EXCEPT !.pc = "done",
                                               !.result = filepath(task.dest, suggested)]]
               ELSE download_image_enter(dl, t, task)
    /\ UNCHANGED <<kd, enc, sg, parked, boot, cl, art, ml, br, cw, rc, upVars>>

\* the caller has the value returned and may call again
CallReturns(t) ==
    /\ dl.tasks[t].pc = "done"
    /\ dl' = [dl EXCEPT !.tasks[t] = NoTask]
    /\ UNCHANGED <<kd, enc, sg, parked, boot, cl, art, ml, br, cw, rc, upVars>>

(***************************************************************************)
(* The browser fields of a WeiboImageDownloader and the four operations    *)
(* that read or write them.  A field is TRUE when it holds an object and   *)
(* FALSE when it is None.  A call into playwright can raise; the place of  *)
(* the failure is an input of the operation.                               *)
(***************************************************************************)
MaxOps == 5

\* the fields after __init__ (lines 29-32)
NoBrowser == [playwright |-> FALSE, browser |-> FALSE, context |-> FALSE, page |-> FALSE]

\* the places where start_browser and close_browser can fail
StartFailures == {"none", "start", "launch", "new_context", "new_page"}
CloseFailures == {"none", "close", "stop"}

\* start_browser (lines 266-276): the fields it leaves and whether it raised
start_browser(b, fail) ==
    IF b.playwright THEN [fields |-> b, raised |-> FALSE]
    ELSE IF fail = "start" THEN [fields |-> b, raised |-> TRUE]
    ELSE IF fail = "launch" THEN [fields |-> [b EXCEPT !.playwright = TRUE], raised |-> TRUE]
    ELSE IF fail = "new_context"
    THEN [fields |-> [b EXCEPT !.playwright = TRUE, !.browser = TRUE], raised |-> TRUE]
    ELSE IF fail = "new_page"
    THEN [fields |-> [b EXCEPT !.playwright = TRUE, !.browser = TRUE, !.context = TRUE],
          raised |-> TRUE]
    ELSE [fields |-> [playwright |-> TRUE, browser |-> TRUE, context |-> TRUE, page |-> TRUE],
          raised |-> FALSE]

\* close_browser (lines 278-288)
close_browser(b, fail) ==
    IF b.browser /\ fail = "close" THEN [fields |-> b, raised |-> TRUE]
    ELSE IF b.playwright /\ fail = "stop"
    THEN [fields |-> [b EXCEPT !.browser = FALSE], raised |-> TRUE]
    ELSE [fields |-> NoBrowser, raised |-> FALSE]

BrInit ==
    br = [fields |-> NoBrowser, ops |-> 0,
          last |-> [op |-> "__init__", raised |-> FALSE, error |-> "none", before |-> NoBrowser]]

\* what an operation leaves in br
after_op(op, r, error) ==
    [fields |-> r.fields, ops |-> br.ops + 1,
     last |-> [op |-> op, raised |-> r.raised, error |-> IF r.raised THEN error ELSE "none",
               before |-> br.fields]]

StartBrowser ==
    /\ br.ops < MaxOps
    /\ \E fail \in StartFailures :
         br' = after_op("start_browser", start_browser(br.fields, fail), "playwright")
    /\ UNCHANGED <<kd, enc, sg, parked, boot, cl, art, ml, dl, cw, rc, upVars>>

CloseBrowser ==
    /\ br.ops < MaxOps
    /\ \E fail \in CloseFailures :
         br' = after_op("close_browser", close_browser(br.fields, fail), "playwright")
    /\ UNCHANGED <<kd, enc, sg, parked, boot, cl, art, ml, dl, cw, rc, upVars>>

\* prepare_page (lines 290-307): RuntimeError without a page; with one, the
\* navigation and the waits can time out
PreparePage ==
    /\ br.ops < MaxOps
    /\ \E timeout \in BOOLEAN :
         br' = IF ~br.fields.page
               THEN after_op("prepare_page", [fields |-> br.fields, raised |-> TRUE],
                             "Browser not started")
               ELSE after_op("prepare_page", [fields |-> br.fields, raised |-> timeout],
                             "playwright")
    /\ UNCHANGED <<kd, enc, sg, parked, boot, cl, art, ml, dl, cw, rc, upVars>>

\* download_media_list (lines 309-336): RuntimeError without a page; with
\* one, the media loop runs (MediaListStep) and the list is returned
DownloadMediaList ==
    /\ br.ops < MaxOps
    /\ br' = IF ~br.fields.page
             THEN after_op("download_media_list", [fields |-> br.fields, raised |-> TRUE],
                           "Browser not started")
             ELSE after_op("download_media_list", [fields |-> br.fields, raised |-> FALSE],
                           "none")
    /\ UNCHANGED <<kd, enc, sg, parked, boot, cl, art, ml, dl, cw, rc, upVars>>

(***************************************************************************)
(* weibo.crawl_weibo: the crawl, the media phase on a downloader of its    *)
(* own, and the finally block.  The crawl (lines 133-196) and              *)
(* download_media_list are taken by their outcomes; start_browser and      *)
(* close_browser are the operations above.                                 *)
(***************************************************************************)
MaxPosts == 3

\* posts_data: for each post, whether it has media_urls
PostLists == UNION {[1..n -> BOOLEAN] : n \in 0..MaxPosts}

CwInit ==
    cw \in [pc : {"call"}, download_media : BOOLEAN, config : ArtConfigs, posts : PostLists,
            i : {1}, created : {FALSE}, fields : {NoBrowser}, closes : {0},
            exc : {"none"}, failed_at : {"none"}]

\* the exception e leaves the try block at the given place
cw_raise(c, e, place) == [c EXCEPT !.pc = "finally", !.exc = e, !.failed_at = place]

\* lines 133-196: the page is crawled and the posts are extracted, or the
\* crawl or the JSON decoding fails with RuntimeError
CrawlPosts ==
    /\ cw.pc = "call"
    /\ \E ok \in BOOLEAN :
         cw' = IF ok THEN [cw EXCEPT !.pc = "media"]
               ELSE cw_raise(cw, "RuntimeError", "crawl")
    /\ UNCHANGED <<kd, enc, sg, parked, boot, cl, art, ml, dl, br, rc, upVars>>

\* lines 199-220: without download_media or posts the posts are returned;
\* otherwise the uploader and the downloader are constructed (mkdir can fail)
MediaSetup ==
    /\ cw.pc = "media"
    /\ \E mkdir_ok \in BOOLEAN :
         cw' = IF ~cw.download_media \/ cw.posts = <<>> THEN [cw EXCEPT !.pc = "finally"]
               ELSE IF cw.config # NoConfig /\ init_raises(cw.config)
               THEN cw_raise(cw, "ValueError", "R2Uploader")
               ELSE IF ~mkdir_ok THEN cw_raise(cw, "OSError", "WeiboImageDownloader")
               ELSE [cw EXCEPT !.pc = "start", !.created = TRUE]
    /\ UNCHANGED <<kd, enc, sg, parked, boot, cl, art, ml, dl, br, rc, upVars>>

\* line 223: await downloader.start_browser(headless=headless)
CrawlStartBrowser ==
    /\ cw.pc = "start"
    /\ \E fail \in StartFailures :
         LET r == start_browser(cw.fields, fail)
         IN  cw' = IF r.raised
                   THEN cw_raise([cw EXCEPT !.fields = r.fields], "playwright", "start_browser")
                   ELSE [cw EXCEPT !.pc = "prepare", !.fields = r.fields]
    /\ UNCHANGED <<kd, enc, sg, parked, boot, cl, art, ml, dl, br, rc, upVars>>

\* line 224: await downloader.prepare_page()
CrawlPreparePage ==
    /\ cw.pc = "prepare"
    /\ \E timeout \in BOOLEAN :
         cw' = IF ~cw.fields.page THEN cw_raise(cw, "RuntimeError", "prepare_page")
               ELSE IF timeout THEN cw_raise(cw, "playwright", "prepare_page")
               ELSE [cw EXCEPT !.pc = "posts"]
    /\ UNCHANGED <<kd, enc, sg, parked, boot, cl, art, ml, dl, br, rc, upVars>>

\* lines 229-251: one post; download_media_list returns the paths or raises
CrawlPostMedia ==
    /\ cw.pc = "posts"
    /\ cw.i <= Len(cw.posts)
    /\ \E ok \in BOOLEAN :
         cw' = IF ~cw.posts[cw.i] \/ ok THEN [cw EXCEPT !.i = cw.i + 1]
               ELSE cw_raise(cw, "ValueError", "download_media_list")
    /\ UNCHANGED <<kd, enc, sg, parked, boot, cl, art, ml, dl, br, rc, upVars>>

\* lines 253-258: return posts_data
CrawlPostsDone ==
    /\ cw.pc = "posts"
    /\ cw.i > Len(cw.posts)
    /\ cw' = [cw EXCEPT !.pc = "finally"]
    /\ UNCHANGED <<kd, enc, sg, parked, boot, cl, art, ml, dl, br, rc, upVars>>

\* slip: the browser is closed after the try block, not in a finally block
CrawlFinally_mut_after_try ==
    /\ cw.pc = "finally"
    /\ \E fail \in CloseFailures :
         LET r == close_browser(cw.fields, fail)
         IN  cw' = IF cw.created /\ cw.exc = "none"
                   THEN [cw EXCEPT !.closes = cw.closes + 1, !.fields = r.fields,
                                   !.pc = IF r.raised THEN "raised" ELSE "returned",
                                   !.exc = IF r.raised THEN "playwright" ELSE cw.exc]
                   ELSE [cw EXCEPT !.pc = IF cw.exc = "none" THEN "returned" ELSE "raised"]
    /\ UNCHANGED <<kd, enc, sg, parked, boot, cl, art, ml, dl, br, rc, upVars>>

\* lines 260-263: finally: if downloader: await downloader.close_browser();
\* an exception of close_browser takes the place of the pending one
CrawlFinally ==
    /\ cw.pc = "finally"
    /\ \E fail \in CloseFailures :
         LET r == close_browser(cw.fields, fail)
         IN  cw' = IF cw.created
                   THEN [cw EXCEPT !.closes = cw.closes + 1, !.fields = r.fields,
                                   !.pc = IF r.raised \/ cw.exc # "none"
                                          THEN "raised" ELSE "returned",
                                   !.exc = IF r.raised THEN "playwright" ELSE cw.exc]
                   ELSE [cw EXCEPT !.pc = IF cw.exc = "none" THEN "returned" ELSE "raised"]
    /\ UNCHANGED <<kd, enc, sg, parked, boot, cl, art, ml, dl, br, rc, upVars>>

(***************************************************************************)
(* crawl.run_crawler_for_config: crawl, build and push with their          *)
(* counters.  crawl_weibo, build_article_from_weibo and post_article are   *)
(* taken by their outcomes: they return or raise.                          *)
(***************************************************************************)
RcInit ==
    rc \in [pc : {"call"}, type : {"weibo", "rss"}, PUSH_TO_HONO : BOOLEAN, DRY_RUN : BOOLEAN,
            crawl : {"pending"}, posts : {0}, i : {1}, articles : {<<>>}, failed_builds : {0},
            j : {1}, pushed : {0}, failed_pushes : {0}, post_calls : {0},
            result : {<<>>}]

\* return (crawled_count, built_count, pushed_count)
rc_return(r, counts) == [r EXCEPT !.pc = "returned", !.result = counts]

\* lines 318-353: an unknown type, a crawl that raises and an empty list of
\* posts give (0, 0, 0); without push and dry run the posts are only printed
RunCrawl ==
    /\ rc.pc = "call"
    /\ \E ok \in BOOLEAN, n \in 0..MaxPosts :
         rc' = IF rc.type # "weibo" THEN rc_return([rc EXCEPT !.crawl = "unknown_type"], <<0, 0, 0>>)
               ELSE IF ~ok THEN rc_return([rc EXCEPT !.crawl = "failed"], <<0, 0, 0>>)
               ELSE IF n = 0 THEN rc_return([rc EXCEPT !.crawl = "ok"], <<0, 0, 0>>)
               ELSE IF ~rc.PUSH_TO_HONO /\ ~rc.DRY_RUN
               THEN rc_return([rc EXCEPT !.crawl = "ok", !.posts = n], <<n, 0, 0>>)
               ELSE [rc EXCEPT !.pc = "build", !.crawl = "ok", !.posts = n]
    /\ UNCHANGED <<kd, enc, sg, parked, boot, cl, art, ml, dl, br, cw, upVars>>

\* slip: the first article that fails to build ends the loop
BuildArticle_mut_stops ==
    /\ rc.pc = "build"
    /\ rc.i <= rc.posts
    /\ \E ok \in BOOLEAN :
         rc' = IF rc.type # "weibo" \/ ~ok
               THEN [rc EXCEPT !.i = rc.posts + 1, !.failed_builds = rc.failed_builds + 1]
               ELSE [rc EXCEPT !.i = rc.i + 1, !.articles = Append(rc.articles, rc.i)]
    /\ UNCHANGED <<kd, enc, sg, parked, boot, cl, art, ml, dl, br, cw, upVars>>

\* lines 360-387: one post; build_article_from_weibo returns the article
\* or raises, and a failure is counted
BuildArticle ==
    /\ rc.pc = "build"
    /\ rc.i <= rc.posts
    /\ \E ok \in BOOLEAN :
         rc' = IF rc.type # "weibo" \/ ~ok
               THEN [rc EXCEPT !.i = rc.i + 1, !.failed_builds = rc.failed_builds + 1]
               ELSE [rc EXCEPT !.i = rc.i + 1, !.articles = Append(rc.articles, rc.i)]
    /\ UNCHANGED <<kd, enc, sg, parked, boot, cl, art, ml, dl, br, cw, upVars>>

\* lines 389-399: nothing built, or a dry run: return without pushing
BuildDone ==
    /\ rc.pc = "build"
    /\ rc.i > rc.posts
    /\ rc' = IF rc.articles = <<>> THEN rc_return(rc, <<rc.posts, 0, 0>>)
             ELSE IF rc.DRY_RUN THEN rc_return(rc, <<rc.posts, Len(rc.articles), 0>>)
             ELSE [rc EXCEPT !.pc = "push"]
    /\ UNCHANGED <<kd, enc, sg, parked, boot, cl, art, ml, dl, br, cw, upVars>>

\* lines 406-417: one article; post_article returns or raises
PushArticle ==
    /\ rc.pc = "push"
    /\ rc.j <= Len(rc.articles)
    /\ \E ok \in BOOLEAN :
         rc' = IF ok
               THEN [rc EXCEPT !.j = rc.j + 1, !.post_calls = rc.post_calls + 1,
                               !.pushed = rc.pushed + 1]
               ELSE [rc EXCEPT !.j = rc.j + 1, !.post_calls = rc.post_calls + 1,
                               !.failed_pushes = rc.failed_pushes + 1]
    /\ UNCHANGED <<kd, enc, sg, parked, boot, cl, art, ml, dl, br, cw, upVars>>

\* lines 419-425: the summary and the counts
PushDone ==
    /\ rc.pc = "push"
    /\ rc.j > Len(rc.articles)
    /\ rc' = rc_return(rc, <<rc.posts, Len(rc.articles), rc.pushed>>)
    /\ UNCHANGED <<kd, enc, sg, parked, boot, cl, art, ml, dl, br, cw, upVars>>

(***************************************************************************)
(* Two threads calling upload_file on one uploader.  One thread runs at a  *)
(* time (the interpreter lock); Switch parks the running call with its     *)
(* locals and resumes the other one.  The uploader, its config and the     *)
(* clock are shared.                                                       *)
(***************************************************************************)
NoThread == [pc |-> "idle"]

Switch ==
    /\ parked # NoThread
    /\ parked' = [call |-> call, pc |-> pc, loc |-> loc, trace |-> trace, result |-> result]
    /\ call' = parked.call
    /\ pc' = parked.pc
    /\ loc' = parked.loc
    /\ trace' = parked.trace
    /\ result' = parked.result
    /\ UNCHANGED <<cfg, self, now, stdout, kd, enc, sg, boot, cl, pipeVars>>

(***************************************************************************)
(* The uploader after construction and the calls made on it.               *)
(***************************************************************************)
Endpoints == { <<"s", ":", "/", "/", "h">>, <<"s", ":", "/", "/", "h", "/">> }
PublicBases == { None, <<>>, <<"s", ":", "/", "/", "c">>, <<"s", ":", "/", "/", "c", "/", "/">> }
Prefixes == { <<>>, <<"/", "m", "/">> }
DatePrefixes == { None, <<"d">> }
ObjectNames == { None, <<"a", "+">>, <<"a", " ">>, <<"U+6D4B">> }
Payloads == { <<>>, <<1>> }
\* the clock at the call: midnight, and three seconds before the next midnight
StartTimes == { 0, 24 * 3600 - 3 }

Configs ==
    [endpoint : Endpoints, bucket : {<<"b">>}, access_key : {AccessKeyId}, secret_key : {SecretAccessKey},
     prefix : Prefixes, public_base_url : PublicBases]

Calls ==
    [file_path : {<<"t", "/", "f">>},
     file_state : {"file", "missing", "unreadable"},
     data : Payloads,
     object_name : ObjectNames,
     max_retries : -1..MaxRetries]

LocInit ==
    [filename |-> <<>>, key |-> <<>>, uri |-> <<>>, url |-> <<>>, attempt |-> 0,
     outcome |-> NoOutcome, last_error |-> NoError]

UpInit ==
    /\ cfg \in Configs
    /\ self \in {new_uploader(cfg, d, FALSE) : d \in DatePrefixes}
    /\ call \in Calls
    /\ pc = "call"
    /\ loc = LocInit
    /\ now \in StartTimes
    /\ trace = <<>>
    /\ result = Pending
    /\ stdout = <<>>

\* one uploader, an upload_file call in each of two threads
ConcConfigs ==
    [endpoint : {<<"s", ":", "/", "/", "h">>}, bucket : {<<"b">>},
     access_key : {AccessKeyId}, secret_key : {SecretAccessKey},
     prefix : {<<"/", "m", "/">>}, public_base_url : {<<"s", ":", "/", "/", "c">>}]
ConcDatePrefixes == { <<"d", "/">> }
ConcObjectNames == { None, <<"a", "+">> }
ConcMaxRetries == { 1, 2 }

ConcInit ==
    /\ cfg \in ConcConfigs
    /\ self \in {new_uploader(cfg, d, FALSE) : d \in ConcDatePrefixes}
    /\ call \in [file_path : {<<"t", "/", "f">>}, file_state : {"file"}, data : {<<>>},
                  object_name : ConcObjectNames, max_retries : ConcMaxRetries]
    /\ pc = "call"
    /\ loc = LocInit
    /\ now = 0
    /\ trace = <<>>
    /\ result = Pending
    /\ stdout = <<>>
    /\ parked \in [call : [file_path : {<<"t", "/", "f">>}, file_state : {"file"},
                            data : {<<1>>}, object_name : ConcObjectNames,
                            max_retries : ConcMaxRetries],
                    pc : {"call"}, loc : {LocInit}, trace : {<<>>}, result : {Pending}]

\* an uploader built with debug=True
DebugCalls ==
    [file_path : {<<"t", "/", "f">>}, file_state : {"file", "missing", "unreadable"},
     data : {<<1>>}, object_name : {None, <<"a", " ">>}, max_retries : {0, 1, 2}]

DebugInit ==
    /\ cfg \in [endpoint : {<<"s", ":", "/", "/", "h">>}, bucket : {<<"b">>},
                 access_key : {AccessKeyId}, secret_key : {SecretAccessKey},
                 prefix : {<<>>}, public_base_url : {None, <<"s", ":", "/", "/", "c">>}]
    /\ self = new_uploader(cfg, None, TRUE)
    /\ call \in DebugCalls
    /\ pc = "call"
    /\ loc = LocInit
    /\ now = 0
    /\ trace = <<>>
    /\ result = Pending
    /\ stdout = <<>>

\* no uploader in use
UpIdle ==
    /\ cfg = [endpoint |-> <<>>, bucket |-> <<>>, access_key |-> <<>>, secret_key |-> <<>>,
              prefix |-> <<>>, public_base_url |-> None]
    /\ self = [date_prefix |-> None, debug |-> FALSE, host |-> <<>>, scheme |-> <<>>]
    /\ call = [file_path |-> <<>>, file_state |-> "missing", data |-> <<>>,
               object_name |-> None, max_retries |-> 0]
    /\ pc = "idle"
    /\ loc = LocInit
    /\ now = 0
    /\ trace = <<>>
    /\ result = Pending
    /\ stdout = <<>>

(***************************************************************************)
(* Specifications.                                                         *)
(***************************************************************************)
AuxIdle == kd = KdIdle /\ enc = EncIdle /\ sg = SgIdle /\ parked = NoThread /\ boot = BootIdle /\ cl = ClIdle /\ PipeIdle

Init == UpInit /\ AuxIdle
Next ==
    \/ Prepare
    \/ LoopNext
    \/ FallThrough
    \/ AttemptSucceeds
    \/ AttemptFails
    \/ Wake
Spec == Init /\ [][Next]_vars

InitKey == KdInit /\ enc = EncIdle /\ sg = SgIdle /\ parked = NoThread /\ boot = BootIdle /\ cl = ClIdle /\ PipeIdle /\ UpIdle
NextKey == DeriveKey
SpecKey == InitKey /\ [][NextKey]_vars

InitEncode == EncInit /\ kd = KdIdle /\ sg = SgIdle /\ parked = NoThread /\ boot = BootIdle /\ cl = ClIdle /\ PipeIdle /\ UpIdle
NextEncode == EncodePath
SpecEncode == InitEncode /\ [][NextEncode]_vars

InitConc ==
    ConcInit /\ kd = KdIdle /\ enc = EncIdle /\ sg = SgIdle /\ boot = BootIdle /\ cl = ClIdle /\ PipeIdle
NextConc ==
    \/ Prepare
    \/ LoopNext
    \/ AttemptSucceeds
    \/ AttemptFails
    \/ Wake
    \/ Switch
SpecConc == InitConc /\ [][NextConc]_vars

InitBoot ==
    /\ BootInit /\ kd = KdIdle /\ enc = EncIdle /\ sg = SgIdle /\ parked = NoThread
    /\ cl = ClIdle /\ PipeIdle /\ UpIdle
NextBoot ==
    \/ LoadConfig
    \/ Construct
    \/ CallUpload
    \/ Prepare
    \/ LoopNext
    \/ FallThrough
    \/ AttemptSucceeds
    \/ AttemptFails
    \/ Wake
SpecBoot == InitBoot /\ [][NextBoot]_vars

InitClassify ==
    /\ ClInit /\ kd = KdIdle /\ enc = EncIdle /\ sg = SgIdle /\ parked = NoThread
    /\ boot = BootIdle /\ PipeIdle /\ UpIdle
NextClassify == Classify
SpecClassify == InitClassify /\ [][NextClassify]_vars

InitDebug == DebugInit /\ AuxIdle
SpecDebug == InitDebug /\ [][Next]_vars

InitArticle ==
    /\ ArtInit /\ kd = KdIdle /\ enc = EncIdle /\ sg = SgIdle /\ parked = NoThread
    /\ boot = BootIdle /\ cl = ClIdle /\ UpIdle
    /\ ml = Unused /\ dl = Unused /\ br = Unused /\ cw = Unused /\ rc = Unused
NextArticle ==
    \/ BuildStart
    \/ MediaStep
    \/ DownloadToTemp
    \/ UploadMedia
    \/ BuildReturn
SpecArticle == InitArticle /\ [][NextArticle]_vars

InitMediaList ==
    /\ MlInit /\ kd = KdIdle /\ enc = EncIdle /\ sg = SgIdle /\ parked = NoThread
    /\ boot = BootIdle /\ cl = ClIdle /\ UpIdle
    /\ art = Unused /\ dl = Unused /\ br = Unused /\ cw = Unused /\ rc = Unused
NextMediaList ==
    \/ MediaListStart
    \/ MediaListStep
    \/ MediaListReturn
SpecMediaList == InitMediaList /\ [][NextMediaList]_vars

\* one caller: the calls on the downloader follow one another
InitDedup ==
    /\ DlInit({1}) /\ kd = KdIdle /\ enc = EncIdle /\ sg = SgIdle /\ parked = NoThread
    /\ boot = BootIdle /\ cl = ClIdle /\ UpIdle
    /\ art = Unused /\ ml = Unused /\ br = Unused /\ cw = Unused /\ rc = Unused
NextDedup ==
    \/ \E t \in DOMAIN dl.tasks : CallDownloadImage(t)
    \/ \E t \in DOMAIN dl.tasks : FetchResponds(t)
    \/ \E t \in DOMAIN dl.tasks : CallProcessImage(t)
    \/ \E t \in DOMAIN dl.tasks : BrowserDownloadEnds(t)
    \/ \E t \in DOMAIN dl.tasks : CallReturns(t)
SpecDedup == InitDedup /\ [][NextDedup]_vars

\* two tasks of one event loop share the downloader
InitDedupConc ==
    /\ DlInit({1, 2}) /\ kd = KdIdle /\ enc = EncIdle /\ sg = SgIdle /\ parked = NoThread
    /\ boot = BootIdle /\ cl = ClIdle /\ UpIdle
    /\ art = Unused /\ ml = Unused /\ br = Unused /\ cw = Unused /\ rc = Unused
SpecDedupConc == InitDedupConc /\ [][NextDedup]_vars

InitAgree ==
    /\ AgreeInit /\ kd = KdIdle /\ enc = EncIdle /\ sg = SgIdle /\ parked = NoThread
    /\ boot = BootIdle /\ PipeIdle /\ UpIdle
NextAgree ==
    \/ UploadReturns
    \/ Classify
SpecAgree == InitAgree /\ [][NextAgree]_vars

InitBrowser ==
    /\ BrInit /\ kd = KdIdle /\ enc = EncIdle /\ sg = SgIdle /\ parked = NoThread
    /\ boot = BootIdle /\ cl = ClIdle /\ UpIdle
    /\ art = Unused /\ ml = Unused /\ dl = Unused /\ cw = Unused /\ rc = Unused
NextBrowser ==
    \/ StartBrowser
    \/ CloseBrowser
    \/ PreparePage
    \/ DownloadMediaList
SpecBrowser == InitBrowser /\ [][NextBrowser]_vars

InitCrawl ==
    /\ CwInit /\ kd = KdIdle /\ enc = EncIdle /\ sg = SgIdle /\ parked = NoThread
    /\ boot = BootIdle /\ cl = ClIdle /\ UpIdle
    /\ art = Unused /\ ml = Unused /\ dl = Unused /\ br = Unused /\ rc = Unused
NextCrawl ==
    \/ CrawlPosts
    \/ MediaSetup
    \/ CrawlStartBrowser
    \/ CrawlPreparePage
    \/ CrawlPostMedia
    \/ CrawlPostsDone
    \/ CrawlFinally
SpecCrawl == InitCrawl /\ [][NextCrawl]_vars

InitRun ==
    /\ RcInit /\ kd = KdIdle /\ enc = EncIdle /\ sg = SgIdle /\ parked = NoThread
    /\ boot = BootIdle /\ cl = ClIdle /\ UpIdle
    /\ art = Unused /\ ml = Unused /\ dl = Unused /\ br = Unused /\ cw = Unused
NextRun ==
    \/ RunCrawl
    \/ BuildArticle
    \/ BuildDone
    \/ PushArticle
    \/ PushDone
SpecRun == InitRun /\ [][NextRun]_vars

InitSign ==
    SgInit /\ kd = KdIdle /\ enc = EncIdle /\ parked = NoThread /\ boot = BootIdle /\ cl = ClIdle /\ PipeIdle /\ UpIdle
NextSign == SignHeaders
SpecSign == InitSign /\ [][NextSign]_vars

(***************************************************************************)
(* Vocabulary of the claims.                                               *)
(***************************************************************************)
Count(s, c) == Cardinality({i \in 1..Len(s) : s[i] = c})

\* s.strip() == "": empty or made of whitespace only
Blank(s) == \A i \in 1..Len(s) : s[i] = " "

HasEmptyComponent(key) ==
    \E i \in 1..Len(split(key, "/")) : split(key, "/")[i] = <<>>

NonEmptySeg(s) == s # <<>>

\* the '/'-join of the non-empty, slash-trimmed segments, in order
JoinOfTrimmed(prefix, date_prefix, filename) ==
    join(SelectSeq(<<strip(prefix, "/"),
                     IF date_prefix = None THEN <<>> ELSE strip(date_prefix, "/"),
                     strip(filename, "/")>>, NonEmptySeg), "/")

\* RFC 3986 unreserved characters
Unreserved ==
    {c \in Chars : \/ ord(c) \in 65..90 \/ ord(c) \in 97..122 \/ ord(c) \in 48..57
                   \/ c \in {"-", ".", "_", "~"}}

HexSet == {HexDigits[i] : i \in 1..Len(HexDigits)}

HexVal(c) == (CHOOSE i \in 1..Len(HexDigits) : HexDigits[i] = c) - 1

\* every character is unreserved or part of a %XX triple
RECURSIVE EncodedOK(_)
EncodedOK(s) ==
    \/ s = <<>>
    \/ Head(s) \in Unreserved /\ EncodedOK(Tail(s))
    \/ /\ Len(s) >= 3
       /\ s[1] = "%" /\ s[2] \in HexSet /\ s[3] \in HexSet
       /\ EncodedOK(SubSeq(s, 4, Len(s)))

\* number of bytes of the UTF-8 form of a character
ByteLen(c) == IF ord(c) < 128 THEN 1 ELSE IF ord(c) < 2048 THEN 2 ELSE 3

RECURSIVE EncodedLen(_)
EncodedLen(s) ==
    IF s = <<>> THEN 0
    ELSE (IF Head(s) \in Unreserved THEN 1 ELSE 3 * ByteLen(Head(s)))
         + EncodedLen(Tail(s))

\* percent-decoding: %XX triples to bytes, bytes to characters (UTF-8)
RECURSIVE PercentBytes(_)
PercentBytes(s) ==
    IF s = <<>> THEN <<>>
    ELSE IF Len(s) >= 3 /\ s[1] = "%" /\ s[2] \in HexSet /\ s[3] \in HexSet
         THEN <<16 * HexVal(s[2]) + HexVal(s[3])>> \o PercentBytes(SubSeq(s, 4, Len(s)))
    ELSE <<ord(Head(s))>> \o PercentBytes(Tail(s))

RECURSIVE Utf8Decode(_)
Utf8Decode(bs) ==
    IF bs = <<>> THEN <<>>
    ELSE IF bs[1] >= 224 /\ Len(bs) >= 3
         THEN <<chr((bs[1] - 224) * 4096 + (bs[2] - 128) * 64 + (bs[3] - 128))>>
              \o Utf8Decode(SubSeq(bs, 4, Len(bs)))
    ELSE IF bs[1] >= 192 /\ Len(bs) >= 2
         THEN <<chr((bs[1] - 192) * 64 + (bs[2] - 128))>>
              \o Utf8Decode(SubSeq(bs, 3, Len(bs)))
    ELSE <<chr(bs[1])>> \o Utf8Decode(Tail(bs))

PercentDecode(s) == Utf8Decode(PercentBytes(s))

(***************************************************************************)
(* Claims about upload_file (Spec).                                        *)
(***************************************************************************)
\* C1: with max-attempts N >= 1 and every attempt failing, exactly N
\* attempts are made, the wait after attempt k (k < N) is 2k seconds, no
\* wait follows the final attempt, and the call raises an error that wraps
\* the error of attempt N.
C1_ExhaustedRetries ==
    LET N == call.max_retries
    IN  /\ (pc = "raised" /\ call.file_state = "file") =>
               /\ N >= 1
               /\ Len(trace) = 2 * N - 1
               /\ \A k \in 1..N :
                      trace[2 * k - 1].op = "urlopen" /\ trace[2 * k - 1].attempt = k
               /\ \A k \in 1..(N - 1) :
                      trace[2 * k].op = "sleep" /\ trace[2 * k].secs = 2 * k
               /\ result.kind = "raise"
               /\ result.type = "RuntimeError"
               /\ result.attempts = N
               /\ result.cause.type # "none"
               /\ result.cause.attempt = N
               /\ result.cause.status = loc.outcome.status
        /\ (N >= 1 /\ loc.last_error.attempt = N) => pc = "raised"

C1_Witness ==
    /\ pc = "raised"
    /\ call.max_retries = 4
    /\ Len(trace) = 7
    /\ trace[2].secs = 2 /\ trace[4].secs = 4 /\ trace[6].secs = 6
    /\ result.cause.type = "URLError"

\* C2: for an existing source file and any max_retries, zero and negative
\* values included, upload_file never returns normally without a URL.
C2_NeverReturnsWithoutUrl ==
    (call.file_state = "file" /\ pc = "returned") =>
        result.kind = "return" /\ result.value # None

\* C3: an attempt is a success exactly when its response status is 200 or
\* 201; any other status and any exception make it a failure that is kept
\* as a candidate for retry, and a URL is returned only after an attempt
\* that received 200 or 201.
C3_SuccessIff200Or201 ==
    /\ (pc = "returned" /\ result.value # None) =>
           /\ loc.outcome.kind = "response"
           /\ loc.outcome.status \in {200, 201}
           /\ trace[Len(trace)].op = "urlopen"
           /\ trace[Len(trace)].attempt = loc.attempt
    /\ loc.outcome.kind # "none" =>
           IF loc.outcome.kind = "response" /\ loc.outcome.status \in {200, 201}
           THEN pc = "returned" /\ result.kind = "return" /\ result.value # None
           ELSE /\ pc \in {"sleeping", "loop", "try", "raised"}
                /\ loc.last_error.type # "none"
                /\ loc.last_error.status = loc.outcome.status
                /\ pc = "raised" => loc.last_error.attempt = call.max_retries
                /\ pc = "sleeping" => loc.last_error.attempt < call.max_retries

C3_Witness ==
    /\ pc = "returned"
    /\ loc.attempt = 2
    /\ loc.last_error.status = 204
    /\ loc.outcome.status = 201
    /\ result.value # None

\* C4: every kind of failed attempt (transport error, status outside 2xx,
\* other 2xx, 401/403) is handled alike: before the last attempt it is
\* followed by the wait of 2 * attempt seconds and a retry, at the last
\* attempt by the raise; no kind of failure ends the loop early.
C4_FailuresRetriedAlike ==
    [][(pc = "try" /\ pc' # "returned") =>
           /\ loc'.last_error.attempt = loc.attempt
           /\ IF loc.attempt < call.max_retries
              THEN /\ pc' = "sleeping"
                   /\ Len(trace') = Len(trace) + 2
                   /\ trace'[Len(trace) + 1].op = "urlopen"
                   /\ trace'[Len(trace) + 2].op = "sleep"
                   /\ trace'[Len(trace) + 2].secs = 2 * loc.attempt
              ELSE /\ pc' = "raised"
                   /\ Len(trace') = Len(trace) + 1
                   /\ trace'[Len(trace) + 1].op = "urlopen"]_vars

C4_Witness ==
    /\ pc = "try"
    /\ loc.attempt = 3
    /\ loc.last_error.status = 403
    /\ trace[Len(trace)].op = "sleep"
    /\ trace[Len(trace)].secs = 4

\* C5: when the source path names no readable local file, upload_file
\* raises at once: no network call, no wait and no attempt, whatever
\* max_retries is.
C5_UnreadableSourceFailsFast ==
    (call.file_state # "file" /\ pc # "call") =>
        /\ pc = "raised"
        /\ trace = <<>>
        /\ loc.attempt = 0
        /\ result.kind = "raise"
        /\ result.type \in {"FileNotFoundError", "PermissionError"}

C5_Witness ==
    /\ pc = "raised"
    /\ call.file_state = "missing"
    /\ call.max_retries = 3
    /\ result.type = "FileNotFoundError"
    /\ trace = <<>>

\* s without its trailing slashes
WithoutTrailingSlashes(s) ==
    LET keep == {i \in 1..Len(s) : s[i] # "/"}
    IN  IF keep = {} THEN <<>>
        ELSE SubSeq(s, 1, CHOOSE i \in keep : \A j \in keep : j <= i)

\* C6: the URL returned on success is public_base_url without its trailing
\* slashes + "/" + key when a public base URL is configured, and otherwise
\* endpoint without its trailing slashes + "/" + bucket + "/" + key,
\* whatever the payload, the time and the number of attempts.
C6_ReturnedUrl ==
    (pc = "returned" /\ result.value # None) =>
        result.value =
            IF cfg.public_base_url # None /\ cfg.public_base_url # <<>>
            THEN WithoutTrailingSlashes(cfg.public_base_url) \o <<"/">> \o loc.key
            ELSE WithoutTrailingSlashes(cfg.endpoint) \o <<"/">> \o cfg.bucket
                 \o <<"/">> \o loc.key

C6_Witness ==
    /\ pc = "returned"
    /\ loc.attempt = 3
    /\ now = 6
    /\ call.data = <<1>>
    /\ cfg.public_base_url = <<"s", ":", "/", "/", "c", "/", "/">>
    /\ result.value = <<"s", ":", "/", "/", "c", "/", "m", "/", "d", "/", "a", "+">>

\* C9: the URL of every PUT request that is sent is scheme://host followed
\* by the percent-encoded form of /bucket/key, the canonical URI signed for
\* that request.
C9_RequestUrlIsCanonicalUri ==
    \A i \in 1..Len(trace) :
        (trace[i].op = "urlopen" /\ trace[i].wire) =>
            trace[i].req.url =
                self.scheme \o <<":", "/", "/">> \o self.host \o trace[i].req.canonical_uri

\* the canonical request inside an Authorization value: the text whose
\* SHA-256 is the last line of the string to sign
CanonicalRequestOf(auth) == auth.signature.msg[4].sha256

\* the Authorization value of a request
AuthOf(req) == req.headers[<<"A", "u", "t", "h", "o", "r", "i", "z", "a", "t", "i", "o", "n">>].token

\* the elements of a list
Elems(xs) == {xs[k] : k \in 1..Len(xs)}

\* the four signed header names, lower-cased
SignedNames ==
    { <<"h", "o", "s", "t">>,
      <<"x", "-", "a", "m", "z", "-", "c", "o", "n", "t", "e", "n", "t", "-",
        "s", "h", "a", "2", "5", "6">>,
      <<"x", "-", "a", "m", "z", "-", "d", "a", "t", "e">>,
      <<"c", "o", "n", "t", "e", "n", "t", "-", "t", "y", "p", "e">> }

\* C12: every request of upload_file carries exactly the headers Host,
\* x-amz-content-sha256, x-amz-date, Content-Type and Authorization; the
\* signed headers are exactly the first four; and the x-amz-content-sha256
\* value is the payload hash of the canonical request and the SHA-256 of
\* the body that is sent.
C12_RequestHeaders ==
    \A i \in 1..Len(trace) :
        trace[i].op = "urlopen" =>
            LET req == trace[i].req
                creq == CanonicalRequestOf(AuthOf(req))
            IN  /\ DOMAIN req.headers =
                       {Host, XAmzContentSha256, XAmzDate, ContentType, Authorization}
                /\ Len(AuthOf(req).signed_headers) = 4
                /\ Elems(AuthOf(req).signed_headers) = SignedNames
                /\ Len(creq[4]) = 4
                /\ {creq[4][k][1] : k \in 1..Len(creq[4])} = SignedNames
                /\ creq[5] = AuthOf(req).signed_headers
                /\ req.data = call.data
                /\ req.headers[XAmzContentSha256] = [token |-> [sha256 |-> req.data]]
                /\ creq[6] = [sha256 |-> req.data]

C12_Witness ==
    /\ pc = "returned"
    /\ Len(trace) = 3
    /\ call.data = <<1>>
    /\ trace[3].wire
    /\ trace[3].req.headers[XAmzContentSha256] = [token |-> [sha256 |-> <<1>>]]
    /\ Len(AuthOf(trace[3].req).signed_headers) = 4

\* C13: the Authorization value names the algorithm AWS4-HMAC-SHA256, the
\* credential access-key/scope with scope = date-stamp/auto/s3/aws4_request,
\* the signed headers and the signature HMAC(signing-key, string-to-sign),
\* the signing key being HMAC(HMAC(HMAC(HMAC("AWS4" + secret, date-stamp),
\* "auto"), "s3"), "aws4_request"); the scope of the credential is the scope
\* in the string to sign and its date-stamp the one the key is derived from.
C13_AuthorizationValue ==
    \A i \in 1..Len(trace) :
        trace[i].op = "urlopen" =>
            LET auth == AuthOf(trace[i].req)
                scope == auth.credential[2]
                day == scope[1]
            IN  /\ DOMAIN auth = {"algorithm", "credential", "signed_headers", "signature"}
                /\ auth.algorithm = "AWS4-HMAC-SHA256"
                /\ auth.credential = <<cfg.access_key, <<day, "auto", "s3", "aws4_request">>>>
                /\ auth.signature.hmac_key =
                       [hmac_key |->
                           [hmac_key |->
                               [hmac_key |->
                                   [hmac_key |-> <<"A", "W", "S", "4">> \o cfg.secret_key, msg |-> day],
                                msg |-> "auto"],
                            msg |-> "s3"],
                        msg |-> "aws4_request"]
                /\ Len(auth.signature.msg) = 4
                /\ auth.signature.msg[1] = "AWS4-HMAC-SHA256"
                /\ auth.signature.msg[3] = scope
                /\ DOMAIN auth.signature.msg[4] = {"sha256"}
                /\ auth.signed_headers = CanonicalRequestOf(auth)[5]

C13_Witness ==
    /\ pc = "raised"
    /\ Len(trace) = 3
    /\ AuthOf(trace[1].req).credential = <<<<"A", "K", "I", "D">>, <<[ymd |-> 0], "auto", "s3", "aws4_request">>>>
    /\ AuthOf(trace[3].req).credential = <<<<"A", "K", "I", "D">>, <<[ymd |-> 0], "auto", "s3", "aws4_request">>>>
    /\ AuthOf(trace[3].req).signature.msg[2] = [ymd |-> 0, hms |-> 24 * 3600 - 1]

\* the clock reading an amz-date stands for, in seconds
SecondsOf(amz_date) == amz_date.ymd * 24 * 3600 + amz_date.hms

\* C15: every attempt of upload_file, retries included, reads the clock
\* again and computes its own amz-date, date-stamp and Authorization; within
\* an attempt the date-stamp is the date part of the attempt's amz-date; and
\* the uploader and its config hold nothing of the signing context.
C15_SigningContextPerAttempt ==
    /\ \A i \in 1..Len(trace) :
           trace[i].op = "urlopen" =>
               LET auth == AuthOf(trace[i].req)
                   amz_date == trace[i].req.headers[XAmzDate].token
               IN  /\ auth.signature.msg[2] = amz_date
                   /\ auth.credential[2][1] = [ymd |-> amz_date.ymd]
                   /\ auth.signature.msg[3][1] = [ymd |-> amz_date.ymd]
                   /\ amz_date.hms \in 0..(24 * 3600 - 1)
                   /\ (pc \in {"returned", "raised"} /\ i = Len(trace)) =>
                          SecondsOf(amz_date) = now
    /\ \A i \in 1..(Len(trace) - 2) :
           trace[i].op = "urlopen" =>
               /\ trace[i + 1].op = "sleep" /\ trace[i + 2].op = "urlopen"
               /\ SecondsOf(trace[i + 2].req.headers[XAmzDate].token)
                      = SecondsOf(trace[i].req.headers[XAmzDate].token) + trace[i + 1].secs
               /\ AuthOf(trace[i + 2].req) # AuthOf(trace[i].req)
    /\ DOMAIN self = {"date_prefix", "debug", "host", "scheme"}
    /\ DOMAIN cfg = {"endpoint", "bucket", "access_key", "secret_key", "prefix",
                     "public_base_url"}
    /\ self.host = url_netloc(cfg.endpoint) /\ self.scheme = url_scheme(cfg.endpoint)

C15_Witness ==
    /\ pc = "returned"
    /\ Len(trace) = 5
    /\ trace[1].req.headers[XAmzDate].token = [ymd |-> 0, hms |-> 24 * 3600 - 3]
    /\ trace[3].req.headers[XAmzDate].token = [ymd |-> 0, hms |-> 24 * 3600 - 1]
    /\ trace[5].req.headers[XAmzDate].token = [ymd |-> 1, hms |-> 3]
    /\ AuthOf(trace[3].req).credential[2][1] = [ymd |-> 0]
    /\ AuthOf(trace[5].req).credential[2][1] = [ymd |-> 1]

\* the PUT requests a trace holds: the urlopen calls that reached the wire
Puts(tr) == Cardinality({k \in 1..Len(tr) : tr[k].op = "urlopen" /\ tr[k].wire})

\* the call has returned a URL
ReturnedUrl == pc = "returned" /\ result.kind = "return" /\ result.value # None

\* what holds of a call in every state once an attempt got 200 or 201: it
\* was the last thing the call did, every attempt before it failed and was
\* followed by its wait, and the requests sent are as many as the index of
\* that attempt
StoppedAtFirstSuccess ==
    ReturnedUrl =>
        /\ loc.outcome.status \in {200, 201}
        /\ Len(trace) = 2 * loc.attempt - 1
        /\ \A k \in 1..loc.attempt : trace[2 * k - 1].op = "urlopen"
                                      /\ trace[2 * k - 1].attempt = k
        /\ \A k \in 1..(loc.attempt - 1) : trace[2 * k].op = "sleep"
        /\ Puts(trace) = loc.attempt

\* C26 as stated: upload_file stops at the first successful attempt, and the
\* number of PUT requests of a call is at most max_retries and equals the
\* index of the first successful attempt when there is one.
C26_AtMostMaxRetries ==
    /\ StoppedAtFirstSuccess
    /\ pc \in {"returned", "raised"} => Puts(trace) <= call.max_retries

\* C26 amended: upload_file stops at the first successful attempt: after an
\* attempt that received 200 or 201 nothing more is sent and no wait happens;
\* the number of PUT requests of a call is at most max_retries, and zero when
\* max_retries is zero or negative, and it equals the index of the first
\* successful attempt when there is one.
C26_StopsAtFirstSuccess ==
    /\ [](/\ StoppedAtFirstSuccess
          /\ Puts(trace) <= (IF call.max_retries > 0 THEN call.max_retries ELSE 0))
    /\ [][(result.kind = "return" /\ result.value # None) => trace' = trace]_vars

\* a call that succeeded at its third attempt: three requests, two waits
C26_Witness ==
    /\ ReturnedUrl
    /\ call.max_retries = 4
    /\ loc.attempt = 3
    /\ Puts(trace) = 3
    /\ Len(trace) = 5
    /\ trace[5].op = "urlopen"

(***************************************************************************)
(* Claims about concurrent calls (SpecConc).                               *)
(***************************************************************************)
\* the call of the running thread
Running == [call |-> call, pc |-> pc, loc |-> loc, trace |-> trace, result |-> result]

\* the waits of a call so far, in seconds
RECURSIVE WaitedIn(_)
WaitedIn(tr) ==
    IF tr = <<>> THEN 0
    ELSE (IF Head(tr).op = "sleep" THEN Head(tr).secs ELSE 0) + WaitedIn(Tail(tr))

\* what a call does when it runs alone on the uploader: its key, URL, body,
\* signature inputs and result depend on its own arguments, the uploader
\* and the config only
AsAlone(f) ==
    LET filename == IF f.call.object_name = None THEN <<"f">> ELSE f.call.object_name
        key == <<"m", "/", "d", "/">> \o filename
        uri == <<"/", "b", "/">> \o key
    IN  /\ f.pc # "call" =>
               f.loc.key = key /\ f.loc.url = <<"s", ":", "/", "/", "h">> \o uri
        /\ \A i \in 1..Len(f.trace) :
               IF i % 2 = 1
               THEN /\ f.trace[i].op = "urlopen"
                    /\ f.trace[i].attempt = (i + 1) \div 2
                    /\ f.trace[i].req.url = <<"s", ":", "/", "/", "h">> \o uri
                    /\ f.trace[i].req.data = f.call.data
                    /\ f.trace[i].req.headers[Host] = [text |-> <<"h">>]
                    /\ AuthOf(f.trace[i].req).credential[1] = <<"A", "K", "I", "D">>
                    /\ CanonicalRequestOf(AuthOf(f.trace[i].req))[2] = _encode_uri_path(uri)
                    /\ CanonicalRequestOf(AuthOf(f.trace[i].req))[6] = [sha256 |-> f.call.data]
                    /\ SecondsOf(f.trace[i].req.headers[XAmzDate].token)
                           >= WaitedIn(SubSeq(f.trace, 1, i))
               ELSE f.trace[i].op = "sleep" /\ f.trace[i].secs = i
        /\ Len(f.trace) <= 2 * f.call.max_retries - 1
        /\ f.pc = "returned" =>
               /\ f.result = [kind |-> "return",
                              value |-> <<"s", ":", "/", "/", "c", "/">> \o key]
               /\ f.loc.outcome.status \in {200, 201}
        /\ f.pc = "raised" =>
               /\ f.result.type = "RuntimeError"
               /\ f.result.attempts = f.call.max_retries
               /\ Len(f.trace) = 2 * f.call.max_retries - 1

\* C16: upload_file and _sign never write to a field of the uploader or of
\* its config, so in every interleaving of upload_file calls of several
\* threads on one uploader each call signs, sends and returns what it would
\* if it ran alone.
C16_ConcurrentCallsIndependent ==
    /\ [](AsAlone(Running) /\ AsAlone(parked))
    /\ [][cfg' = cfg /\ self' = self]_vars

C16_Witness ==
    /\ pc = "returned" /\ parked.pc = "raised"
    /\ call.object_name = None /\ parked.call.object_name = <<"a", "+">>
    /\ Len(trace) = 3 /\ Len(parked.trace) = 3
    /\ SecondsOf(trace[1].req.headers[XAmzDate].token) = 0
    /\ SecondsOf(parked.trace[1].req.headers[XAmzDate].token) = 0
    /\ SecondsOf(parked.trace[3].req.headers[XAmzDate].token) = 2
    /\ SecondsOf(trace[3].req.headers[XAmzDate].token) = 4
    /\ result.value = <<"s", ":", "/", "/", "c", "/", "m", "/", "d", "/", "f">>

(***************************************************************************)
(* Claims about configuration and construction (SpecBoot).                 *)
(***************************************************************************)
\* a setting that is present and not empty
IsSet(v) == v # <<"<None>">> /\ Len(v) > 0

\* the four required settings of an environment
Required(env) ==
    <<env.R2_ENDPOINT, env.R2_BUCKET, env.R2_ACCESS_KEY_ID, env.R2_SECRET_ACCESS_KEY>>

\* C17: load_config_from_env returns None whenever one of the four required
\* settings is absent or empty and otherwise a config holding all four; no
\* partially configured store is produced, and no caller constructs an
\* R2Uploader from an unconfigured store.
C17_ConfiguredOrNone ==
    /\ boot.pc \notin {"idle", "env"} =>
           IF \A k \in 1..4 : IsSet(Required(boot.env)[k])
           THEN /\ boot.config # NoConfig
                /\ <<boot.config.endpoint, boot.config.bucket, boot.config.access_key,
                     boot.config.secret_key>> = Required(boot.env)
           ELSE boot.config = NoConfig
    /\ boot.pc \in {"constructed", "init_raised"} =>
           /\ boot.config # NoConfig
           /\ \A k \in 1..4 : IsSet(Required(boot.env)[k])
    /\ boot.pc = "constructed" =>
           /\ cfg = boot.config
           /\ IsSet(cfg.endpoint) /\ IsSet(cfg.bucket)
           /\ IsSet(cfg.access_key) /\ IsSet(cfg.secret_key)
    /\ boot.pc = "no_uploader" => boot.config = NoConfig /\ boot.inits = 0 /\ pc = "idle"

C17_Witness ==
    /\ boot.pc = "no_uploader"
    /\ boot.env.R2_ENDPOINT = <<"s", ":", "/", "/", "h">>
    /\ boot.env.R2_BUCKET = <<"b">>
    /\ boot.env.R2_ACCESS_KEY_ID = <<"A", "K", "I", "D">>
    /\ boot.env.R2_SECRET_ACCESS_KEY = <<>>
    /\ boot.config = NoConfig

\* C18: the construction of an R2Uploader fails at once when the endpoint
\* lacks a scheme or a host: the constructor raises before any file is read
\* and any network call is made, it is not tried again, and every uploader
\* that exists has a non-empty scheme and a non-empty host.
C18_ConstructorRejectsEndpoint ==
    LET ep == boot.config.endpoint
        lacks == url_scheme(ep) = <<>> \/ url_netloc(ep) = <<>>
    IN  /\ (boot.pc \in {"constructed", "init_raised"}) =>
               /\ boot.inits = 1
               /\ lacks <=> boot.pc = "init_raised"
        /\ boot.pc = "init_raised" =>
               /\ pc = "idle" /\ trace = <<>> /\ result = Pending /\ loc.attempt = 0
               /\ self.host = <<>> /\ self.scheme = <<>>
        /\ boot.pc = "constructed" =>
               /\ self.scheme # <<>> /\ self.host # <<>>
               /\ self.scheme = <<"s">> /\ self.host = <<"h">>
        /\ (pc # "idle" \/ trace # <<>>) =>
               boot.pc = "constructed" /\ self.scheme # <<>> /\ self.host # <<>>

C18_Witness ==
    /\ boot.pc = "init_raised"
    /\ boot.config # NoConfig
    /\ boot.config.endpoint = <<"s", ":", "h">>
    /\ boot.inits = 1
    /\ pc = "idle" /\ trace = <<>>

(***************************************************************************)
(* Claims about _is_r2_url (SpecClassify).                                 *)
(***************************************************************************)
\* p is a prefix of s
IsPrefix(p, s) == Len(p) <= Len(s) /\ \A i \in 1..Len(p) : s[i] = p[i]

\* a public base URL is configured
HasPublicBase(config) ==
    config.public_base_url # <<"<None>">> /\ Len(config.public_base_url) > 0

Occurs(k, s) ==
    /\ Len(k) > 0
    /\ \E i \in 1..(Len(s) - Len(k) + 1) : SubSeq(s, i, i + Len(k) - 1) = k

\* the str values in the message of the error the call raised
RaisedStrs ==
    IF result.kind # "raise" THEN <<>>
    ELSE IF result.type \in {"FileNotFoundError", "PermissionError"} THEN <<call.file_path>>
    ELSE str_of_error(result.cause, loc.uri).strs

\* C20: neither the access key id nor the secret access key appears
\* verbatim in a line the uploader prints or in the message of an error it
\* raises, on every path: success, failed attempts, the authentication
\* hints, exhausted retries, and with debug output enabled.
C20_CredentialsNeverShown ==
    \A k \in {cfg.access_key, cfg.secret_key} :
        /\ \A i \in 1..Len(stdout) :
               \A j \in 1..Len(stdout[i].strs) : ~Occurs(k, stdout[i].strs[j])
        /\ \A j \in 1..Len(RaisedStrs) : ~Occurs(k, RaisedStrs[j])

(***************************************************************************)
(* Claims about the media loops (SpecArticle, SpecMediaList).              *)
(***************************************************************************)
\* the entries of a media list that are not empty, in order
NonEmptyOf(media) == SelectSeq(media, LAMBDA m : Truthy(m))

\* C21: a media upload failure is not fatal to download_media_list: after an
\* upload_file call that raised, the entry's pre-upload reference (the saved
\* path) stands at the entry's position, the loop goes on, and the list
\* returned has exactly one entry per non-empty input entry, in input order:
\* the entry itself, its saved path or its uploaded URL.
C21_UploadFailureNotFatal ==
    /\ \A k \in 1..Len(ml.events) :
         (ml.events[k].op = "upload" /\ ~ml.events[k].out)
             => /\ ml.pc # "raised" \/ ml.i > ml.events[k].i
                /\ Len(ml.saved_paths) >= ml.events[k].i
                /\ ml.saved_paths[ml.events[k].i] = SavedPath
    /\ ml.pc = "returned" =>
         LET inputs == NonEmptyOf(ml.media)
         IN  /\ Len(ml.saved_paths) = Len(inputs)
             /\ \A j \in 1..Len(inputs) :
                  \/ ml.saved_paths[j] \in {inputs[j], SavedPath}
                  \/ /\ ml.config # NoConfig
                     /\ ml.saved_paths[j] =
                            public_url(ml.config, _derive_key(ml.config.prefix, ml.date_prefix,
                                                              basename(SavedPath)))

\* the position in the gallery of the media entry at index i
GalleryIndex(i) == Len(NonEmptyOf(SubSeq(art.media, 1, i)))

\* a remote (not a local file) http(s) media URL at index i
RemoteHttp(i) ==
    /\ Truthy(art.media[i])
    /\ art.media[i] \notin art.files
    /\ ~urlparse_raises(art.media[i])
    /\ is_http(art.media[i])

\* C22: in build_article_from_weibo the classifier is consulted before any
\* upload: a remote URL that _is_r2_url classifies as own is neither downloaded
\* nor uploaded and its gallery entry keeps the URL unchanged; a download
\* follows at once on a classification of the same entry as not own, and an
\* upload of a remote entry follows at once on its successful download.
C22_ClassifiedBeforeUpload ==
    /\ \A k \in 1..Len(art.events) :
         LET ev == art.events[k] IN
         /\ ev.op = "download" =>
              /\ k > 1
              /\ art.events[k - 1] = [op |-> "classify", i |-> ev.i, src |-> ev.src, out |-> FALSE]
              /\ ~_is_r2_url(ev.src, art.config)
         /\ (ev.op = "upload" /\ ev.src \notin art.files) =>
              /\ k > 2
              /\ art.events[k - 1] = [op |-> "download", i |-> ev.i, src |-> ev.src, out |-> TRUE]
    /\ \A i \in 1..Len(art.media) :
         (art.i > i /\ art.config # NoConfig /\ RemoteHttp(i)
            /\ _is_r2_url(art.media[i], art.config))
         => /\ \A k \in 1..Len(art.events) :
                 art.events[k].i = i => art.events[k].op = "classify"
            /\ art.gallery[GalleryIndex(i)].src = art.media[i]

\* an article returned with an own URL kept and a foreign one downloaded and uploaded
C22_Witness ==
    /\ art.pc = "returned"
    /\ art.media = <<OwnByBase, Foreign>>
    /\ art.gallery[1].src = OwnByBase
    /\ art.gallery[2].src \notin {OwnByBase, Foreign}
    /\ Len(art.events) = 4
    /\ art.events[1] = [op |-> "classify", i |-> 1, src |-> OwnByBase, out |-> TRUE]
    /\ art.events[4].op = "upload"

(***************************************************************************)
(* Claims about the downloader's dedup set (SpecDedup, SpecDedupConc).     *)
(***************************************************************************)
\* the requests sent in the step
NewRequests == { dl'.requests[k] : k \in (Len(dl.requests) + 1)..Len(dl'.requests) }

\* C23: under sequential calls download_image avoids duplicate network work:
\* a fetch that succeeded leaves the URL and its rewritten (mw2000) variant in
\* downloaded_urls, no request is sent by a call whose URL is in the set, the
\* set only grows, and a fetch that failed adds nothing to it.
C23_NoDuplicateFetch ==
    [][ /\ dl.downloaded_urls \subseteq dl'.downloaded_urls
        /\ \A r \in NewRequests : r.image_url \notin dl.downloaded_urls
        /\ \A t \in DOMAIN dl.tasks :
             (dl.tasks[t].pc = "awaiting" /\ dl'.tasks[t].pc = "done") =>
                IF dl'.tasks[t].result # None
                THEN {dl.tasks[t].url, re_sub_mw2000(dl.tasks[t].url)}
                         \subseteq dl'.downloaded_urls
                ELSE dl'.downloaded_urls = dl.downloaded_urls ]_vars

\* a thumbnail URL was fetched, and a later call with its mw2000 variant
\* returned the file without a request
C23_Witness ==
    /\ dl.calls = 2
    /\ Len(dl.requests) = 1
    /\ dl.requests[1].image_url = <<"w", "/", "o", "r", "j", "3", "6", "0", "/", "a">>
    /\ dl.tasks[1].pc = "done"
    /\ dl.tasks[1].op = "download_image"
    /\ dl.tasks[1].url = <<"w", "/", "m", "w", "2", "0", "0", "0", "/", "a">>
    /\ dl.tasks[1].result # None

\* C24: the dedup set is unprotected: the step in which a download_image call
\* passes the membership test and sends its request leaves downloaded_urls as
\* it was (the insertion comes after the await), and while a call awaits its
\* response nothing keeps another task's call with the same URL from passing
\* the test and sending a request of its own.
C24_UnprotectedDedupSet ==
    /\ [](\A t \in DOMAIN dl.tasks, u \in DOMAIN dl.tasks :
            (t # u /\ dl.tasks[t].pc = "awaiting" /\ dl.tasks[t].url \notin dl.downloaded_urls)
            => download_image_enter(dl, u, [dl.tasks[t] EXCEPT !.attempts = 0]).tasks[u].pc
                   = "awaiting")
    /\ [][\A t \in DOMAIN dl.tasks :
            (dl.tasks[t].pc # "awaiting" /\ dl'.tasks[t].pc = "awaiting")
            => dl'.downloaded_urls = dl.downloaded_urls]_vars

\* two tasks fetch the same URL at the same time
C24_Witness ==
    /\ DOMAIN dl.tasks = {1, 2}
    /\ dl.tasks[1].pc = "awaiting" /\ dl.tasks[2].pc = "awaiting"
    /\ dl.tasks[1].op = "download_image" /\ dl.tasks[2].op = "download_image"
    /\ dl.tasks[1].url = dl.tasks[2].url
    /\ Len(dl.requests) = 2
    /\ dl.requests[1].url = dl.requests[2].url

\* C25: when process_image_by_url finds the image URL in downloaded_urls but
\* no file for it in the target directory, a new download is attempted (a
\* request of download_image or the viewer's download button) before the call
\* returns.
C25_MissingFileIsFetchedAgain ==
    \A t \in DOMAIN dl.tasks :
        (dl.tasks[t].pc = "done" /\ dl.tasks[t].op = "process_image_by_url" /\ dl.tasks[t].known)
        => dl.tasks[t].attempts >= 1

(***************************************************************************)
(* Claims about upload and classification together (SpecAgree).            *)
(***************************************************************************)
\* C27: upload and classification agree: for every config, with or without
\* public_base_url and whatever the trailing slashes of public_base_url and
\* endpoint, and every key, the URL upload_file returns on success is
\* classified as own by _is_r2_url under the same config.
C27_ReturnedUrlIsOwn ==
    cl.pc = "done" => cl.out

(***************************************************************************)
(* Claims about the browser lifecycle (SpecBrowser, SpecCrawl).            *)
(***************************************************************************)
\* C28: over any sequence of start_browser, close_browser, prepare_page and
\* download_media_list calls, a start_browser that raised part-way included:
\* whenever start_browser returns normally the page is set, so that the next
\* prepare_page or download_media_list does not raise 'Browser not started';
\* after a close_browser that returned all four fields are unset and those
\* two operations raise; start_browser on a started instance and close_browser
\* on a closed one change nothing.
C28_BrowserLifecycle ==
    /\ (br.last.op = "start_browser" /\ ~br.last.raised) => br.fields.page
    /\ (br.last.op = "close_browser" /\ ~br.last.raised) => br.fields = NoBrowser
    /\ br.last.op \in {"prepare_page", "download_media_list"} =>
          (br.last.error = "Browser not started") = ~br.last.before.page
    /\ (br.last.op = "start_browser" /\ br.last.before.page) => br.fields = br.last.before
    /\ (br.last.op = "close_browser" /\ br.last.before = NoBrowser)
          => br.fields = br.last.before /\ ~br.last.raised

\* C29: crawl_weibo releases the browser on every exit path: once the media
\* downloader has been created, close_browser is called exactly once before
\* crawl_weibo returns or lets an error out (a failure of start_browser, of
\* prepare_page or of a download included), it is not called before the try
\* block is left, and it is not called when no downloader was created.
C29_BrowserReleasedOnEveryPath ==
    /\ cw.pc \in {"returned", "raised"} => cw.closes = (IF cw.created THEN 1 ELSE 0)
    /\ cw.pc \notin {"returned", "raised"} => cw.closes = 0
    /\ (cw.pc = "returned" /\ cw.created) => cw.fields = NoBrowser

\* start_browser failed after the playwright start, and the error left
\* crawl_weibo after one close_browser
C29_Witness ==
    /\ cw.pc = "raised"
    /\ cw.created
    /\ cw.failed_at = "start_browser"
    /\ cw.closes = 1
    /\ cw.fields = NoBrowser

(***************************************************************************)
(* Claims about run_crawler_for_config (SpecRun).                          *)
(***************************************************************************)
\* C30: run_crawler_for_config always returns counts (crawled, built,
\* pushed) with 0 <= pushed <= built <= crawled, whatever fails: a failure to
\* build or push one article is counted and the remaining ones are still
\* tried; a crawl failure or an unknown crawler type gives (0, 0, 0); nothing
\* is pushed in a dry run or when pushing is disabled.
C30_CountsOrdered ==
    /\ rc.post_calls > 0 => rc.PUSH_TO_HONO /\ ~rc.DRY_RUN
    /\ rc.pc = "returned" =>
         LET crawled == rc.result[1]
             built == rc.result[2]
             pushed == rc.result[3]
         IN  /\ 0 <= pushed /\ pushed <= built /\ built <= crawled
             /\ rc.crawl \in {"failed", "unknown_type"} => rc.result = <<0, 0, 0>>
             /\ crawled = rc.posts
             /\ (rc.DRY_RUN \/ ~rc.PUSH_TO_HONO) => pushed = 0
             /\ (rc.PUSH_TO_HONO \/ rc.DRY_RUN) =>
                    /\ Len(rc.articles) + rc.failed_builds = rc.posts
                    /\ built = Len(rc.articles)
             /\ (rc.PUSH_TO_HONO /\ ~rc.DRY_RUN) =>
                    /\ rc.post_calls = built
                    /\ pushed + rc.failed_pushes = built
                    /\ pushed = rc.pushed

\* the first post fails to build, the second is built and its push fails
C30_Witness ==
    /\ rc.pc = "returned"
    /\ rc.result = <<2, 1, 0>>
    /\ rc.articles = <<2>>
    /\ rc.failed_builds = 1
    /\ rc.failed_pushes = 1

(***************************************************************************)
(* Claims about _derive_key (SpecKey).                                     *)
(***************************************************************************)
\* C7: for every prefix, date-prefix and non-empty filename the key has no
\* empty path component (so no leading and no doubled slash), and an empty
\* or whitespace-only segment contributes nothing to the key.
C7_KeyHasNoEmptyComponent ==
    (kd.pc = "done" /\ kd.filename # <<>>) =>
        /\ ~HasEmptyComponent(kd.key)
        /\ Blank(strip(kd.prefix, "/")) =>
               kd.key = _derive_key(<<>>, kd.date_prefix, kd.filename)
        /\ (kd.date_prefix # None /\ Blank(strip(kd.date_prefix, "/"))) =>
               kd.key = _derive_key(kd.prefix, None, kd.filename)

\* C8: the key is the '/'-join of the non-empty, slash-trimmed segments
\* prefix, date-prefix, filename in that order, the filename being the
\* explicit object name or, when none is given, the base name of the path.
C8_KeyIsJoinOfTrimmedSegments ==
    kd.pc = "done" =>
        kd.key = JoinOfTrimmed(kd.prefix, kd.date_prefix,
                               IF kd.object_name = None \/ kd.object_name = <<>>
                               THEN basename(kd.file_path) ELSE kd.object_name)

(***************************************************************************)
(* Claims about _encode_uri_path (SpecEncode).                             *)
(***************************************************************************)
\* C10: _encode_uri_path encodes each '/'-delimited segment on its own and
\* never the separators: as many '/' and as many segments out as in, every
\* character of an output segment is unreserved or part of a %XX triple, a
\* character that is not unreserved becomes one triple per UTF-8 byte (a
\* space becomes %20), and percent-decoding the output gives the input.
C10_EncodePerSegment ==
    enc.pc = "done" =>
        LET ins == split(enc.path, "/")
            outs == split(enc.out, "/")
        IN  /\ Count(enc.out, "/") = Count(enc.path, "/")
            /\ Len(outs) = Len(ins)
            /\ \A i \in 1..Len(outs) :
                   /\ EncodedOK(outs[i])
                   /\ Len(outs[i]) = EncodedLen(ins[i])
                   /\ PercentDecode(outs[i]) = ins[i]
            /\ (enc.path = <<" ">> => enc.out = <<"%", "2", "0">>)
            /\ PercentDecode(enc.out) = enc.path

C10_Witness ==
    /\ enc.pc = "done"
    /\ enc.path = <<"U+6D4B", "/", " ">>
    /\ enc.out = <<"%", "E", "6", "%", "B", "5", "%", "8", "B", "/", "%", "2", "0">>

(***************************************************************************)
(* Claims about _sign (SpecSign).                                          *)
(***************************************************************************)
\* s <= t in the order of code points
RECURSIVE LexLeq(_, _)
LexLeq(s, t) ==
    \/ s = <<>>
    \/ /\ t # <<>>
       /\ \/ ord(s[1]) < ord(t[1])
          \/ s[1] = t[1] /\ LexLeq(Tail(s), Tail(t))

\* C11: for every header set passed to _sign, upper- and lower-case names
\* mixed, the canonical header lines come in the order of the lower-cased
\* names, one line (lower-cased name, trimmed value) per header, and the
\* signed-headers list names the same headers in the order of the lines.
C11_CanonicalHeadersSorted ==
    sg.pc = "done" =>
        LET lines == CanonicalRequestOf(sg.auth)[4]
            signed == CanonicalRequestOf(sg.auth)[5]
        IN  /\ Len(lines) = Cardinality(DOMAIN sg.headers)
            /\ \A n \in DOMAIN sg.headers :
                   \E i \in 1..Len(lines) :
                       lines[i] = <<lower(n), [text |-> strip(sg.headers[n].text, " ")]>>
            /\ \A i \in 1..(Len(lines) - 1) : LexLeq(lines[i][1], lines[i + 1][1])
            /\ signed = [i \in 1..Len(lines) |-> lines[i][1]]

====
